---- MODULE Spec2Model ----
(***************************************************************************)
(* toc-markdown: the Markdown structural parser (parser.py) and the TOC    *)
(* entry generator (generator.py, slugify.py).                             *)
(*                                                                         *)
(* Text is a sequence of one-character strings, so that prefix tests,      *)
(* whitespace columns, regular-expression matches and slug building are    *)
(* computed character by character as the Python code computes them.       *)
(* Python's None is modelled by -1 for line indices and by "" for the      *)
(* fence character.                                                        *)
(***************************************************************************)
EXTENDS Integers, Sequences, FiniteSets, TLC

None == -1
NoChar == ""

\* U+0060 (grave accent), which cannot be written inside a TLA+ string
BACKTICK == "BACKTICK"

(***************************************************************************)
(* Bounds of the model.                                                    *)
(***************************************************************************)
MaxLines == 4
MaxHdrLines == 3
MaxGenHeaders == 4
MaxLenParts == 3
MaxMarkerLine == 104
MaxTitleLen == 4
MaxTargetLen == 4
MaxPieces == 3
MaxFenceLines == 3
MaxIndentLines == 3
MaxRegenLines == 4
MaxRuns == 2

(***************************************************************************)
(* Python str helpers.                                                     *)
(***************************************************************************)
\* str.splitlines boundaries representable in the model alphabet
LineBoundaries == {"\n", "\r", "\f"}

\* characters removed by str.strip() without arguments
PyWhitespace == {" ", "\t", "\n", "\r", "\f"}

\* characters matched by \s in a str pattern
ReWhitespace == {" ", "\t", "\n", "\r", "\f"}

RECURSIVE CountLeading(_, _)
CountLeading(s, chars) ==
    IF s = <<>> \/ Head(s) \notin chars THEN 0
    ELSE 1 + CountLeading(Tail(s), chars)

RECURSIVE CountTrailing(_, _)
CountTrailing(s, chars) ==
    IF s = <<>> \/ s[Len(s)] \notin chars THEN 0
    ELSE 1 + CountTrailing(SubSeq(s, 1, Len(s) - 1), chars)

LStrip(s, chars) == SubSeq(s, CountLeading(s, chars) + 1, Len(s))

RStrip(s, chars) == SubSeq(s, 1, Len(s) - CountTrailing(s, chars))

Strip(s, chars) == RStrip(LStrip(s, chars), chars)

StartsWith(line, prefix) ==
    Len(line) >= Len(prefix) /\ SubSeq(line, 1, Len(prefix)) = prefix

EndsWith(line, suffix) ==
    Len(line) >= Len(suffix)
    /\ SubSeq(line, Len(line) - Len(suffix) + 1, Len(line)) = suffix

RECURSIVE Flatten(_)
Flatten(parts) ==
    IF parts = <<>> THEN <<>> ELSE Head(parts) \o Flatten(Tail(parts))

\* position of the last character of the first line of a non-empty text
FirstLineEnd(rest) ==
    LET ends == {i \in 1..Len(rest) :
                    /\ rest[i] \in LineBoundaries
                    /\ ~(rest[i] = "\r" /\ i < Len(rest) /\ rest[i + 1] = "\n")}
    IN IF ends = {} THEN Len(rest)
       ELSE CHOOSE i \in ends : \A j \in ends : i <= j

RECURSIVE SplitLinesFrom(_, _)
SplitLinesFrom(rest, cur) ==
    IF rest = <<>> THEN (IF cur = <<>> THEN <<>> ELSE <<cur>>)
    ELSE <<cur \o SubSeq(rest, 1, FirstLineEnd(rest))>>
         \o SplitLinesFrom(SubSeq(rest, FirstLineEnd(rest) + 1, Len(rest)),
                           <<>>)

\* content.splitlines() without keepends
splitlines_drop_ends(text) ==
    LET lines == SplitLinesFrom(text, <<>>)
    IN [i \in DOMAIN lines |-> RStrip(lines[i], LineBoundaries)]

\* content.splitlines(keepends=True)
splitlines(text) == SplitLinesFrom(text, <<>>)

(***************************************************************************)
(* Configuration (config.py).                                              *)
(***************************************************************************)
S_start_marker == <<"<", "!", "-", "-", " ", "T", "O", "C", " ", "-", "-", ">">>
S_end_marker == <<"<", "!", "-", "-", " ", "/", "T", "O", "C", " ", "-", "-", ">">>
S_header_text ==
    <<"#", "#", " ", "T", "a", "b", "l", "e", " ", "o", "f", " ",
      "C", "o", "n", "t", "e", "n", "t", "s">>

TocConfig ==
    [start_marker |-> S_start_marker,
     end_marker |-> S_end_marker,
     header_text |-> S_header_text,
     min_level |-> 2,
     max_level |-> 3,
     indent_chars |-> <<" ", " ", " ", " ">>,
     indent_spaces |-> None,
     list_style |-> <<"1", ".">>,
     preserve_unicode |-> FALSE,
     max_line_length |-> 10000,
     max_headers |-> 10000]

RECURSIVE Repeat(_, _)
Repeat(text, n) == IF n <= 0 THEN <<>> ELSE text \o Repeat(text, n - 1)

S_ordered == <<"o", "r", "d", "e", "r", "e", "d">>
S_unordered == <<"u", "n", "o", "r", "d", "e", "r", "e", "d">>

normalize_config(config) ==
    [config EXCEPT
        !.indent_chars = IF config.indent_spaces # None
                         THEN Repeat(<<" ">>, config.indent_spaces) ELSE @,
        !.list_style = IF @ = S_ordered THEN <<"1", ".">>
                       ELSE IF @ = S_unordered THEN <<"-">> ELSE @]

validate_config(cfg) ==
    LET config == normalize_config(cfg) IN
    /\ cfg.indent_spaces # None => cfg.indent_spaces > 0
    /\ config.min_level >= 1
    /\ config.max_level >= config.min_level
    /\ config.max_level <= 6
    /\ config.start_marker # <<>>
    /\ config.end_marker # <<>>
    /\ config.header_text # <<>>
    /\ config.indent_chars # <<>>
    /\ config.list_style \in {<<"1", ".">>, <<"*">>, <<"-">>}
    /\ config.preserve_unicode \in BOOLEAN
    /\ config.max_line_length > 0
    /\ config.max_headers > 0

(***************************************************************************)
(* Parser state (models.py).                                               *)
(***************************************************************************)
NORMAL == "NORMAL"
IN_TOC == "IN_TOC"
IN_FENCED_CODE == "IN_FENCED_CODE"
IN_INDENTED_CODE == "IN_INDENTED_CODE"
ParserState == {NORMAL, IN_TOC, IN_FENCED_CODE, IN_INDENTED_CODE}

ParserContext ==
    [state |-> NORMAL, fence_char |-> NoChar, fence_length |-> 0,
     fence_indent_columns |-> 0]

CLOSING_FENCE_MAX_INDENT == 3

(***************************************************************************)
(* Scanner helpers (parser.py).                                            *)
(***************************************************************************)
RECURSIVE LeadingColumns(_, _)
LeadingColumns(s, columns) ==
    IF s = <<>> THEN columns
    ELSE IF Head(s) = " " THEN LeadingColumns(Tail(s), columns + 1)
    ELSE IF Head(s) = "\t"
         THEN LeadingColumns(Tail(s), columns + 4 - (columns % 4))
    ELSE columns

leading_whitespace_columns(line) == LeadingColumns(line, 0)

\* ".*$": any characters but a newline, up to the end or to a final newline
DotStarDollar(rest) ==
    \A j \in 1..Len(rest) : rest[j] = "\n" => j = Len(rest)

\* CODE_FENCE_PATTERN.match(line): up to 3 whitespace characters, a run of
\* 3 or more backticks or of 3 or more tildes, then the info string
CODE_FENCE_PATTERN(line) ==
    LET n == CountLeading(line, ReWhitespace)
        after == SubSeq(line, n + 1, Len(line))
        run == IF after # <<>> /\ Head(after) \in {BACKTICK, "~"}
               THEN CountLeading(after, {Head(after)}) ELSE 0
    IN [matched |-> n <= 3 /\ run >= 3
                    /\ DotStarDollar(SubSeq(after, run + 1, Len(after))),
        indent |-> SubSeq(line, 1, n),
        fence |-> SubSeq(after, 1, run)]

\* try_open_fence without the limit on the indentation
try_open_fence_any_indent(ctx, line) ==
    LET m == CODE_FENCE_PATTERN(line)
        indent_columns == leading_whitespace_columns(m.indent)
    IN IF ctx.state # NORMAL THEN [ok |-> FALSE, ctx |-> ctx]
       ELSE IF ~m.matched THEN [ok |-> FALSE, ctx |-> ctx]
       ELSE [ok |-> TRUE,
             ctx |-> [state |-> IN_FENCED_CODE,
                      fence_char |-> m.fence[1],
                      fence_length |-> Len(m.fence),
                      fence_indent_columns |-> indent_columns]]

try_open_fence(ctx, line) ==
    LET m == CODE_FENCE_PATTERN(line)
        indent_columns == leading_whitespace_columns(m.indent)
    IN IF ctx.state # NORMAL THEN [ok |-> FALSE, ctx |-> ctx]
       ELSE IF ~m.matched THEN [ok |-> FALSE, ctx |-> ctx]
       ELSE IF indent_columns > CLOSING_FENCE_MAX_INDENT
            THEN [ok |-> FALSE, ctx |-> ctx]
       ELSE [ok |-> TRUE,
             ctx |-> [state |-> IN_FENCED_CODE,
                      fence_char |-> m.fence[1],
                      fence_length |-> Len(m.fence),
                      fence_indent_columns |-> indent_columns]]

\* try_close_fence that takes a run of either fence character for a closer
try_close_fence_any_char(ctx, line) ==
    LET indent_columns == leading_whitespace_columns(line)
        stripped_line == LStrip(line, {" ", "\t"})
        fence_run_length ==
            IF stripped_line = <<>> THEN 0
            ELSE CountLeading(stripped_line, {Head(stripped_line)})
    IN IF ctx.state # IN_FENCED_CODE \/ ctx.fence_char = NoChar
       THEN [ok |-> FALSE, ctx |-> ctx]
       ELSE IF stripped_line = <<>> \/ stripped_line[1] \notin {BACKTICK, "~"}
       THEN [ok |-> FALSE, ctx |-> ctx]
       ELSE IF fence_run_length < ctx.fence_length
       THEN [ok |-> FALSE, ctx |-> ctx]
       ELSE IF Strip(SubSeq(stripped_line, fence_run_length + 1,
                            Len(stripped_line)), PyWhitespace) # <<>>
       THEN [ok |-> FALSE, ctx |-> ctx]
       ELSE IF indent_columns > CLOSING_FENCE_MAX_INDENT
       THEN [ok |-> FALSE, ctx |-> ctx]
       ELSE [ok |-> TRUE, ctx |-> ParserContext]

\* try_close_fence that resets the state and keeps the fence fields
try_close_fence_keep_fields(ctx, line) ==
    LET indent_columns == leading_whitespace_columns(line)
        stripped_line == LStrip(line, {" ", "\t"})
        fence_run_length == CountLeading(stripped_line, {ctx.fence_char})
    IN IF ctx.state # IN_FENCED_CODE \/ ctx.fence_char = NoChar
       THEN [ok |-> FALSE, ctx |-> ctx]
       ELSE IF stripped_line = <<>> \/ stripped_line[1] # ctx.fence_char
       THEN [ok |-> FALSE, ctx |-> ctx]
       ELSE IF fence_run_length < ctx.fence_length
       THEN [ok |-> FALSE, ctx |-> ctx]
       ELSE IF Strip(SubSeq(stripped_line, fence_run_length + 1,
                            Len(stripped_line)), PyWhitespace) # <<>>
       THEN [ok |-> FALSE, ctx |-> ctx]
       ELSE IF indent_columns > CLOSING_FENCE_MAX_INDENT
       THEN [ok |-> FALSE, ctx |-> ctx]
       ELSE [ok |-> TRUE, ctx |-> [ctx EXCEPT !.state = NORMAL]]

\* try_close_fence whose indentation limit is counted from the opening fence
try_close_fence_relative_indent(ctx, line) ==
    LET indent_columns == leading_whitespace_columns(line)
        stripped_line == LStrip(line, {" ", "\t"})
        fence_run_length == CountLeading(stripped_line, {ctx.fence_char})
    IN IF ctx.state # IN_FENCED_CODE \/ ctx.fence_char = NoChar
       THEN [ok |-> FALSE, ctx |-> ctx]
       ELSE IF stripped_line = <<>> \/ stripped_line[1] # ctx.fence_char
       THEN [ok |-> FALSE, ctx |-> ctx]
       ELSE IF fence_run_length < ctx.fence_length
       THEN [ok |-> FALSE, ctx |-> ctx]
       ELSE IF Strip(SubSeq(stripped_line, fence_run_length + 1,
                            Len(stripped_line)), PyWhitespace) # <<>>
       THEN [ok |-> FALSE, ctx |-> ctx]
       ELSE IF indent_columns - ctx.fence_indent_columns
               > CLOSING_FENCE_MAX_INDENT
       THEN [ok |-> FALSE, ctx |-> ctx]
       ELSE [ok |-> TRUE, ctx |-> ParserContext]

try_close_fence(ctx, line) ==
    LET indent_columns == leading_whitespace_columns(line)
        stripped_line == LStrip(line, {" ", "\t"})
        fence_run_length == CountLeading(stripped_line, {ctx.fence_char})
    IN IF ctx.state # IN_FENCED_CODE \/ ctx.fence_char = NoChar
       THEN [ok |-> FALSE, ctx |-> ctx]
       ELSE IF stripped_line = <<>> \/ stripped_line[1] # ctx.fence_char
       THEN [ok |-> FALSE, ctx |-> ctx]
       ELSE IF fence_run_length < ctx.fence_length
       THEN [ok |-> FALSE, ctx |-> ctx]
       ELSE IF Strip(SubSeq(stripped_line, fence_run_length + 1,
                            Len(stripped_line)), PyWhitespace) # <<>>
       THEN [ok |-> FALSE, ctx |-> ctx]
       ELSE IF indent_columns > CLOSING_FENCE_MAX_INDENT
       THEN [ok |-> FALSE, ctx |-> ctx]
       ELSE [ok |-> TRUE, ctx |-> ParserContext]

try_enter_indented_code(ctx, line) ==
    IF ctx.state # NORMAL THEN [ok |-> FALSE, ctx |-> ctx]
    ELSE IF leading_whitespace_columns(line) >= 4
    THEN [ok |-> TRUE, ctx |-> [ctx EXCEPT !.state = IN_INDENTED_CODE]]
    ELSE [ok |-> FALSE, ctx |-> ctx]

try_exit_indented_code(ctx, line) ==
    IF ctx.state # IN_INDENTED_CODE THEN [ok |-> FALSE, ctx |-> ctx]
    ELSE IF Strip(line, PyWhitespace) = <<>> THEN [ok |-> TRUE, ctx |-> ctx]
    ELSE IF leading_whitespace_columns(line) >= 4
    THEN [ok |-> TRUE, ctx |-> ctx]
    ELSE [ok |-> FALSE, ctx |-> [ctx EXCEPT !.state = NORMAL]]

\* try_enter_toc that enters the region without pushing its end line
try_enter_toc_no_push(ctx, line_number, toc_start_to_end, toc_end_stack) ==
    IF line_number \notin DOMAIN toc_start_to_end
    THEN [ok |-> FALSE, ctx |-> ctx, toc_end_stack |-> toc_end_stack]
    ELSE [ok |-> TRUE,
          ctx |-> [ctx EXCEPT !.state = IN_TOC],
          toc_end_stack |-> toc_end_stack]

try_enter_toc(ctx, line_number, toc_start_to_end, toc_end_stack) ==
    IF line_number \notin DOMAIN toc_start_to_end
    THEN [ok |-> FALSE, ctx |-> ctx, toc_end_stack |-> toc_end_stack]
    ELSE [ok |-> TRUE,
          ctx |-> [ctx EXCEPT !.state = IN_TOC],
          toc_end_stack |-> Append(toc_end_stack, toc_start_to_end[line_number])]

\* try_exit_toc that goes back to NORMAL whatever is left on the stack
try_exit_toc_to_normal(ctx, line_number, toc_end_stack) ==
    IF toc_end_stack = <<>> \/ line_number # toc_end_stack[Len(toc_end_stack)]
    THEN [ok |-> FALSE, ctx |-> ctx, toc_end_stack |-> toc_end_stack]
    ELSE [ok |-> TRUE,
          ctx |-> [ctx EXCEPT !.state = NORMAL],
          toc_end_stack |-> SubSeq(toc_end_stack, 1, Len(toc_end_stack) - 1)]

try_exit_toc(ctx, line_number, toc_end_stack) ==
    IF toc_end_stack = <<>> \/ line_number # toc_end_stack[Len(toc_end_stack)]
    THEN [ok |-> FALSE, ctx |-> ctx, toc_end_stack |-> toc_end_stack]
    ELSE LET popped == SubSeq(toc_end_stack, 1, Len(toc_end_stack) - 1)
         IN [ok |-> TRUE,
             ctx |-> [ctx EXCEPT !.state =
                          IF popped # <<>> THEN IN_TOC ELSE NORMAL],
             toc_end_stack |-> popped]

(***************************************************************************)
(* Slug generation (slugify.py).                                           *)
(***************************************************************************)
\* characters outside ASCII of the model alphabet
E_ACUTE == "U+00E9"
COMBINING_ACUTE == "U+0301"
NBSP == "U+00A0"
NonAscii == {E_ACUTE, COMBINING_ACUTE, NBSP}

UpperCase ==
    <<"A", "B", "C", "D", "E", "F", "G", "H", "I", "J", "K", "L", "M",
      "N", "O", "P", "Q", "R", "S", "T", "U", "V", "W", "X", "Y", "Z">>
LowerCase ==
    <<"a", "b", "c", "d", "e", "f", "g", "h", "i", "j", "k", "l", "m",
      "n", "o", "p", "q", "r", "s", "t", "u", "v", "w", "x", "y", "z">>

\* string.punctuation without "-" and "_"
punctuation ==
    {"!", "\"", "#", "$", "%", "&", "'", "(", ")", "*", "+", ",", ".", "/",
     ":", ";", "<", "=", ">", "?", "@", "[", "\\", "]", "^", BACKTICK, "{",
     "|", "}", "~"}

\* unicodedata.normalize("NFKD", c) for one character
NFKD_char(c) ==
    IF c = E_ACUTE THEN <<"e", COMBINING_ACUTE>>
    ELSE IF c = NBSP THEN <<" ">>
    ELSE <<c>>

RECURSIVE NFKD(_)
NFKD(text) ==
    IF text = <<>> THEN <<>> ELSE NFKD_char(Head(text)) \o NFKD(Tail(text))

\* unicodedata.normalize("NFKC", text): decompose, then compose the pairs
RECURSIVE Compose(_)
Compose(text) ==
    IF Len(text) < 2 THEN text
    ELSE IF text[1] = "e" /\ text[2] = COMBINING_ACUTE
         THEN <<E_ACUTE>> \o Compose(SubSeq(text, 3, Len(text)))
    ELSE <<Head(text)>> \o Compose(Tail(text))

NFKC(text) == Compose(NFKD(text))

\* .encode("ascii", "ignore").decode("utf-8", "ignore")
AsciiOnly(text) == SelectSeq(text, LAMBDA c : c \notin NonAscii)

casefold_char(c) ==
    IF \E i \in DOMAIN UpperCase : UpperCase[i] = c
    THEN LowerCase[CHOOSE i \in DOMAIN UpperCase : UpperCase[i] = c]
    ELSE c

casefold(text) == [i \in DOMAIN text |-> casefold_char(text[i])]

\* re.sub(r"\s+", "-", slug) and re.sub(r"-{2,}", "-", slug)
RECURSIVE CollapseRuns(_, _, _)
CollapseRuns(text, chars, minimum) ==
    IF text = <<>> THEN <<>>
    ELSE LET run == CountLeading(text, chars)
         IN IF run >= minimum
            THEN <<"-">> \o CollapseRuns(SubSeq(text, run + 1, Len(text)),
                                         chars, minimum)
            ELSE <<Head(text)>> \o CollapseRuns(Tail(text), chars, minimum)

S_untitled == <<"u", "n", "t", "i", "t", "l", "e", "d">>

\* generate_slug that strips the hyphens before it replaces the whitespace
generate_slug_strip_first(title, preserve_unicode) ==
    LET normalized == IF preserve_unicode THEN NFKC(title) ELSE NFKD(title)
        ascii == IF preserve_unicode THEN normalized ELSE AsciiOnly(normalized)
        folded == casefold(ascii)
        kept == SelectSeq(folded, LAMBDA c : c \notin punctuation)
        stripped == Strip(kept, {"-"})
        hyphenated == CollapseRuns(stripped, ReWhitespace \cup {NBSP}, 1)
        slug == CollapseRuns(hyphenated, {"-"}, 2)
    IN IF slug # <<>> THEN slug ELSE S_untitled

\* generate_slug without the final strip of hyphens
generate_slug_no_strip(title, preserve_unicode) ==
    LET normalized == IF preserve_unicode THEN NFKC(title) ELSE NFKD(title)
        ascii == IF preserve_unicode THEN normalized ELSE AsciiOnly(normalized)
        folded == casefold(ascii)
        kept == SelectSeq(folded, LAMBDA c : c \notin punctuation)
        hyphenated == CollapseRuns(kept, ReWhitespace \cup {NBSP}, 1)
        slug == CollapseRuns(hyphenated, {"-"}, 2)
    IN IF slug # <<>> THEN slug ELSE S_untitled

generate_slug(title, preserve_unicode) ==
    LET normalized == IF preserve_unicode THEN NFKC(title) ELSE NFKD(title)
        ascii == IF preserve_unicode THEN normalized ELSE AsciiOnly(normalized)
        folded == casefold(ascii)
        kept == SelectSeq(folded, LAMBDA c : c \notin punctuation)
        hyphenated == CollapseRuns(kept, ReWhitespace \cup {NBSP}, 1)
        collapsed == CollapseRuns(hyphenated, {"-"}, 2)
        slug == Strip(collapsed, {"-"})
    IN IF slug # <<>> THEN slug ELSE S_untitled

(***************************************************************************)
(* Link stripping (parser.py).  Positions are zero-based as in the code.   *)
(***************************************************************************)
NUL == "U+0000"

At(text, i) == text[i + 1]

\* text[a:b]
Slice(text, a, b) == SubSeq(text, a + 1, b)

RECURSIVE BackslashesBefore(_, _)
BackslashesBefore(text, i) ==
    IF i >= 0 /\ At(text, i) = "\\" THEN 1 + BackslashesBefore(text, i - 1)
    ELSE 0

is_escaped(text, pos) ==
    IF pos = 0 THEN FALSE
    ELSE BackslashesBefore(text, pos - 1) % 2 = 1

\* length of the run of backticks that starts at position i
BacktickRun(text, i) == CountLeading(Slice(text, i, Len(text)), {BACKTICK})

\* the search for the closing run: the position after it, or not found
RECURSIVE SearchClose(_, _, _)
SearchClose(text, i, backtick_count) ==
    IF i >= Len(text) THEN [found |-> FALSE, i |-> i]
    ELSE IF At(text, i) = BACKTICK /\ ~is_escaped(text, i)
    THEN LET close_count == BacktickRun(text, i)
         IN IF close_count = backtick_count
            THEN [found |-> TRUE, i |-> i + close_count]
            ELSE SearchClose(text, i + close_count, backtick_count)
    ELSE SearchClose(text, i + 1, backtick_count)

RECURSIVE FindSpans(_, _, _)
FindSpans(text, i, spans) ==
    IF i >= Len(text) THEN spans
    ELSE IF At(text, i) = BACKTICK /\ ~is_escaped(text, i)
    THEN LET backtick_count == BacktickRun(text, i)
             close == SearchClose(text, i + backtick_count, backtick_count)
         IN IF close.found
            THEN FindSpans(text, close.i, Append(spans, <<i, close.i>>))
            ELSE FindSpans(text, close.i, spans)
    ELSE FindSpans(text, i + 1, spans)

find_inline_code_spans(text) == FindSpans(text, 0, <<>>)

RECURSIVE ToDigits(_)
ToDigits(n) ==
    LET digit == <<"0", "1", "2", "3", "4", "5", "6", "7", "8", "9">>
    IN IF n < 10 THEN <<digit[n + 1]>>
       ELSE ToDigits(n \div 10) \o <<digit[(n % 10) + 1]>>

\* the placeholder of the code span number k
Placeholder(k) == <<NUL, "C", "O", "D", "E", "_">> \o ToDigits(k) \o <<NUL>>

\* str.replace(old, new), old not empty
RECURSIVE Replace(_, _, _)
Replace(text, old, new) ==
    IF Len(text) < Len(old) THEN text
    ELSE IF StartsWith(text, old)
    THEN new \o Replace(SubSeq(text, Len(old) + 1, Len(text)), old, new)
    ELSE <<Head(text)>> \o Replace(Tail(text), old, new)

\* text with every code span replaced by its placeholder
RECURSIVE WithPlaceholders(_, _, _, _)
WithPlaceholders(text, spans, k, offset) ==
    IF k > Len(spans) THEN Slice(text, offset, Len(text))
    ELSE Slice(text, offset, spans[k][1]) \o Placeholder(k - 1)
         \o WithPlaceholders(text, spans, k + 1, spans[k][2])

\* the search for the matching "]"
RECURSIVE MatchBracket(_, _, _)
MatchBracket(t, j, bracket_depth) ==
    IF ~(j < Len(t) /\ bracket_depth > 0)
    THEN [j |-> j, depth |-> bracket_depth]
    ELSE IF At(t, j) = "\\" /\ j + 1 < Len(t)
    THEN MatchBracket(t, j + 2, bracket_depth)
    ELSE IF At(t, j) = "[" THEN MatchBracket(t, j + 1, bracket_depth + 1)
    ELSE IF At(t, j) = "]" THEN MatchBracket(t, j + 1, bracket_depth - 1)
    ELSE MatchBracket(t, j + 1, bracket_depth)

\* the search for the matching ")"
RECURSIVE MatchParen(_, _, _)
MatchParen(t, k, paren_depth) ==
    IF ~(k < Len(t) /\ paren_depth > 0)
    THEN [k |-> k, depth |-> paren_depth]
    ELSE IF At(t, k) = "\\" /\ k + 1 < Len(t)
    THEN MatchParen(t, k + 2, paren_depth)
    ELSE IF At(t, k) = "(" THEN MatchParen(t, k + 1, paren_depth + 1)
    ELSE IF At(t, k) = ")" THEN MatchParen(t, k + 1, paren_depth - 1)
    ELSE MatchParen(t, k + 1, paren_depth)

\* the search for an unescaped closing character (">" or "]")
RECURSIVE ScanTo(_, _, _)
ScanTo(t, k, closer) ==
    IF ~(k < Len(t) /\ At(t, k) # closer) THEN k
    ELSE IF At(t, k) = "\\" /\ k + 1 < Len(t) THEN ScanTo(t, k + 2, closer)
    ELSE ScanTo(t, k + 1, closer)

RECURSIVE SkipBlanks(_, _)
SkipBlanks(t, k) ==
    IF k < Len(t) /\ At(t, k) \in {" ", "\t"} THEN SkipBlanks(t, k + 1)
    ELSE k

NoLink == [ok |-> FALSE, k |-> 0, link_text |-> <<>>]

\* LinkAt that ends the target at its first closing parenthesis
LinkAt_first_close(t, i) ==
    LET b == MatchBracket(t, i + 1, 1)
        j == b.j
        link_text == Slice(t, i + 1, j - 1)
    IN IF ~(b.depth = 0 /\ j < Len(t)) THEN NoLink
       ELSE IF At(t, j) = "("
       THEN IF j + 1 < Len(t) /\ At(t, j + 1) = "<"
            THEN LET k1 == ScanTo(t, j + 2, ">")
                     k2 == SkipBlanks(t, k1 + 1)
                 IN IF k1 < Len(t) /\ At(t, k1) = ">"
                       /\ k2 < Len(t) /\ At(t, k2) = ")"
                    THEN [ok |-> TRUE, k |-> k2 + 1, link_text |-> link_text]
                    ELSE NoLink
            ELSE LET m == ScanTo(t, j + 1, ")")
                 IN IF m < Len(t) /\ At(t, m) = ")"
                    THEN [ok |-> TRUE, k |-> m + 1, link_text |-> link_text]
                    ELSE NoLink
       ELSE IF At(t, j) = "["
       THEN LET k == ScanTo(t, j + 1, "]")
            IN IF k < Len(t) /\ At(t, k) = "]"
               THEN [ok |-> TRUE, k |-> k + 1, link_text |-> link_text]
               ELSE NoLink
       ELSE NoLink

\* the link or image whose "[" is at position i: where it ends and its text
LinkAt(t, i) ==
    LET b == MatchBracket(t, i + 1, 1)
        j == b.j
        link_text == Slice(t, i + 1, j - 1)
    IN IF ~(b.depth = 0 /\ j < Len(t)) THEN NoLink
       ELSE IF At(t, j) = "("
       THEN IF j + 1 < Len(t) /\ At(t, j + 1) = "<"
            THEN LET k1 == ScanTo(t, j + 2, ">")
                     k2 == SkipBlanks(t, k1 + 1)
                 IN IF k1 < Len(t) /\ At(t, k1) = ">"
                       /\ k2 < Len(t) /\ At(t, k2) = ")"
                    THEN [ok |-> TRUE, k |-> k2 + 1, link_text |-> link_text]
                    ELSE NoLink
            ELSE LET m == MatchParen(t, j + 1, 1)
                 IN IF m.depth = 0
                    THEN [ok |-> TRUE, k |-> m.k, link_text |-> link_text]
                    ELSE NoLink
       ELSE IF At(t, j) = "["
       THEN LET k == ScanTo(t, j + 1, "]")
            IN IF k < Len(t) /\ At(t, k) = "]"
               THEN [ok |-> TRUE, k |-> k + 1, link_text |-> link_text]
               ELSE NoLink
       ELSE NoLink

\* the main loop; result is the list of appended pieces
RECURSIVE StripLoop(_, _, _)
StripLoop(t, i, result) ==
    IF i >= Len(t) THEN result
    ELSE IF At(t, i) = "[" /\ ~is_escaped(t, i)
    THEN IF i > 0 /\ At(t, i - 1) = "!" /\ is_escaped(t, i - 1)
         THEN StripLoop(t, i + 1, Append(result, <<At(t, i)>>))
         ELSE LET is_image == i > 0 /\ At(t, i - 1) = "!"
                              /\ ~is_escaped(t, i - 1)
                  link == LinkAt(t, i)
                  popped == IF is_image /\ result # <<>>
                               /\ result[Len(result)] = <<"!">>
                            THEN SubSeq(result, 1, Len(result) - 1)
                            ELSE result
              IN IF link.ok
                 THEN StripLoop(t, link.k, Append(popped, link.link_text))
                 ELSE StripLoop(t, i + 1, Append(result, <<At(t, i)>>))
    ELSE StripLoop(t, i + 1, Append(result, <<At(t, i)>>))

\* the code spans put back in place of their placeholders
RECURSIVE Restore(_, _, _, _)
Restore(stripped, text, spans, k) ==
    IF k > Len(spans) THEN stripped
    ELSE Restore(Replace(stripped, Placeholder(k - 1),
                         Slice(text, spans[k][1], spans[k][2])),
                 text, spans, k + 1)

\* strip_markdown_links without the protection of the code spans
strip_markdown_links_unprotected(text) ==
    Flatten(StripLoop(text, 0, <<>>))

strip_markdown_links(text) ==
    LET code_spans == find_inline_code_spans(text)
        text_with_placeholders == WithPlaceholders(text, code_spans, 1, 0)
        text_stripped == Flatten(StripLoop(text_with_placeholders, 0, <<>>))
    IN Restore(text_stripped, text, code_spans, 1)

(***************************************************************************)
(* update_toc (filesystem.py): the lines written to the temporary file.    *)
(***************************************************************************)
\* update_toc that keeps the old start-marker line before the new TOC
update_toc_keep_start(full_file, toc, toc_start_line, toc_end_line) ==
    SubSeq(full_file, 1, toc_start_line + 1)
    \o toc
    \o SubSeq(full_file, toc_end_line + 2, Len(full_file))

\* lines 328-337: the file up to the TOC start line, the new TOC, the rest
\* of the file after the TOC end line
update_toc(full_file, toc, toc_start_line, toc_end_line) ==
    SubSeq(full_file, 1, toc_start_line)
    \o toc
    \o SubSeq(full_file, toc_end_line + 2, Len(full_file))

(***************************************************************************)
(* State.                                                                  *)
(***************************************************************************)
VARIABLES
    pc,                \* "start", "scan", "done", "error"
    content,           \* parse_markdown argument
    max_line_length,   \* parse_markdown argument (None when omitted)
    config,            \* parse_markdown argument
    full_file,         \* content.splitlines(keepends=True)
    toc_intervals,     \* result of the first pass
    toc_start_to_end,  \* start line -> end line of each validated TOC
    pre_code,          \* lines the first pass skipped as code (history)
    line_number,       \* index of the next line of the second pass
    ctx,               \* ParserContext of the second pass
    toc_end_stack,
    headers,
    header_lines,      \* line index of each recorded header (history)
    toc_start_line,
    toc_end_line,
    error,             \* exception raised, if any
    toc,               \* generate_toc_entries: the lines rendered so far
    slug_counters,     \* base slug -> next counter
    used_slugs,        \* slugs in use
    header_index,      \* index of the next header of generate_toc_entries
    base_slugs,        \* base_slug of each header so far (history)
    links,             \* slug given to each header so far (history)
    input_text,        \* text given to generate_slug or strip_markdown_links
    slug_first,        \* generate_slug(input_text)
    slug_second,       \* generate_slug(slug_first)
    stripped_text,     \* strip_markdown_links(input_text)
    link_parts,        \* the pieces input_text was made of, for a link
    pieces,            \* the pieces input_text was made of, for inline text
    written            \* update_toc: what each call was given and wrote

parse_vars ==
    <<content, max_line_length, full_file, toc_intervals, toc_start_to_end,
      pre_code, line_number, ctx, toc_end_stack, header_lines,
      toc_start_line, toc_end_line, error>>

gen_vars ==
    <<toc, slug_counters, used_slugs, header_index, base_slugs, links>>

NoParts == [prefix |-> <<>>, text |-> <<>>, target |-> <<>>, suffix |-> <<>>]

text_vars ==
    <<input_text, slug_first, slug_second, stripped_text, link_parts,
      pieces>>

vars == <<pc, config, headers, parse_vars, gen_vars, text_vars, written>>

NoError == [kind |-> "none", line_number |-> 0, limit |-> 0]

LineTooLongError(number, limit) ==
    [kind |-> "LineTooLongError", line_number |-> number, limit |-> limit]

TooManyHeadersError(limit) ==
    [kind |-> "TooManyHeadersError", line_number |-> 0, limit |-> limit]

effective_max_line_length ==
    IF max_line_length = None THEN config.max_line_length ELSE max_line_length

(***************************************************************************)
(* First pass of parse_markdown: TOC intervals outside code blocks.        *)
(***************************************************************************)
\* PreStep that also honours the markers found inside fenced code
PreStep_markers_in_fence(p, line, n) ==
    LET x == try_exit_indented_code(p.ctx, line)
        o == try_open_fence(x.ctx, line)
        e == try_enter_indented_code(x.ctx, line)
        pushed == IF StartsWith(line, config.start_marker)
                  THEN Append(p.toc_stack, n) ELSE p.toc_stack
        paired == StartsWith(line, config.end_marker) /\ pushed # <<>>
        stack == IF paired THEN SubSeq(pushed, 1, Len(pushed) - 1)
                 ELSE pushed
        intervals == IF paired
                     THEN Append(p.toc_intervals, <<pushed[Len(pushed)], n>>)
                     ELSE p.toc_intervals
    IN IF p.ctx.state = IN_FENCED_CODE
       THEN [p EXCEPT !.ctx = try_close_fence(p.ctx, line).ctx,
                      !.code = @ \cup {n},
                      !.toc_stack = stack, !.toc_intervals = intervals]
       ELSE IF p.ctx.state = IN_INDENTED_CODE /\ x.ok
       THEN [p EXCEPT !.code = @ \cup {n}]
       ELSE IF o.ok THEN [p EXCEPT !.ctx = o.ctx, !.code = @ \cup {n}]
       ELSE IF e.ok THEN [p EXCEPT !.ctx = e.ctx, !.code = @ \cup {n}]
       ELSE [p EXCEPT !.ctx = x.ctx, !.toc_stack = stack,
                      !.toc_intervals = intervals]

PreStep(p, line, n) ==
    IF p.ctx.state = IN_FENCED_CODE
    THEN [p EXCEPT !.ctx = try_close_fence(p.ctx, line).ctx,
                   !.code = @ \cup {n}]
    ELSE
    LET x == try_exit_indented_code(p.ctx, line)
        o == try_open_fence(x.ctx, line)
        e == try_enter_indented_code(x.ctx, line)
        pushed == IF StartsWith(line, config.start_marker)
                  THEN Append(p.toc_stack, n) ELSE p.toc_stack
    IN IF p.ctx.state = IN_INDENTED_CODE /\ x.ok
       THEN [p EXCEPT !.code = @ \cup {n}]
       ELSE IF o.ok THEN [p EXCEPT !.ctx = o.ctx, !.code = @ \cup {n}]
       ELSE IF e.ok THEN [p EXCEPT !.ctx = e.ctx, !.code = @ \cup {n}]
       ELSE IF StartsWith(line, config.end_marker) /\ pushed # <<>>
       THEN [p EXCEPT !.ctx = x.ctx,
                      !.toc_stack = SubSeq(pushed, 1, Len(pushed) - 1),
                      !.toc_intervals =
                          Append(@, <<pushed[Len(pushed)], n>>)]
       ELSE [p EXCEPT !.ctx = x.ctx, !.toc_stack = pushed]

RECURSIVE PreScan(_, _, _)
PreScan(lines, n, p) ==
    IF n >= Len(lines) THEN p
    ELSE PreScan(lines, n + 1, PreStep(p, lines[n + 1], n))

PrePass(lines) ==
    PreScan(lines, 0,
            [ctx |-> ParserContext, toc_stack |-> <<>>,
             toc_intervals |-> <<>>, code |-> {}])

\* {start: end for start, end in toc_intervals}: the last pair of a start wins
IntervalMap(intervals) ==
    [s \in {intervals[i][1] : i \in DOMAIN intervals} |->
        LET last == CHOOSE i \in DOMAIN intervals :
                        /\ intervals[i][1] = s
                        /\ \A j \in DOMAIN intervals :
                              intervals[j][1] = s => j <= i
        IN intervals[last][2]]

(***************************************************************************)
(* Second pass of parse_markdown.                                          *)
(***************************************************************************)
NL == <<"\n">>

\* header_pattern without its lower bound on the number of hashes
header_pattern_no_min(line) ==
    \E k \in 1..config.max_level :
        /\ Len(line) >= k + 1
        /\ \A j \in 1..k : line[j] = "#"
        /\ line[k + 1] = " "
        /\ DotStarDollar(SubSeq(line, k + 2, Len(line)))

\* header_pattern.match(line): min_level..max_level hashes, one space, title
header_pattern(line) ==
    \E k \in config.min_level..config.max_level :
        /\ Len(line) >= k + 1
        /\ \A j \in 1..k : line[j] = "#"
        /\ line[k + 1] = " "
        /\ DotStarDollar(SubSeq(line, k + 2, Len(line)))

\* header_match.group(0): the line up to, not including, a final newline
header_group0(line) ==
    IF line # <<>> /\ line[Len(line)] = "\n"
    THEN SubSeq(line, 1, Len(line) - 1) ELSE line

LineLen(line) ==
    IF EndsWith(line, <<"\n">>)
    THEN IF Len(line) - 1 > 0 /\ line[Len(line) - 1] = "\r"
         THEN Len(line) - 2 ELSE Len(line) - 1
    ELSE Len(line)

\* ScanNormal that already fails on header number max_headers
ScanNormal_limit_reached(v, line, n) ==
    LET o == try_open_fence(v.ctx, line)
        e == try_enter_indented_code(v.ctx, line)
        is_start == StartsWith(line, config.start_marker)
        is_end == StartsWith(line, config.end_marker)
        v1 == IF is_start THEN [v EXCEPT !.toc_start_line = n] ELSE v
        t == try_enter_toc(v.ctx, n, toc_start_to_end, v.toc_end_stack)
        hs == Append(v.headers, header_group0(line))
    IN IF o.ok THEN [v EXCEPT !.ctx = o.ctx]
       ELSE IF e.ok THEN [v EXCEPT !.ctx = e.ctx]
       ELSE IF StartsWith(line, config.header_text) THEN v
       ELSE IF LineLen(line) > effective_max_line_length
       THEN [v EXCEPT !.error =
                 LineTooLongError(n + 1, effective_max_line_length)]
       ELSE IF is_start /\ t.ok
       THEN [v1 EXCEPT !.ctx = t.ctx, !.toc_end_stack = t.toc_end_stack]
       ELSE IF is_end THEN [v1 EXCEPT !.toc_end_line = n]
       ELSE IF header_pattern(line)
       THEN IF Len(hs) >= config.max_headers
            THEN [v1 EXCEPT !.headers = hs,
                            !.header_lines = Append(@, n),
                            !.error = TooManyHeadersError(config.max_headers)]
            ELSE [v1 EXCEPT !.headers = hs, !.header_lines = Append(@, n)]
       ELSE v1

\* a line reached in state NORMAL
ScanNormal(v, line, n) ==
    LET o == try_open_fence(v.ctx, line)
        e == try_enter_indented_code(v.ctx, line)
        is_start == StartsWith(line, config.start_marker)
        is_end == StartsWith(line, config.end_marker)
        v1 == IF is_start THEN [v EXCEPT !.toc_start_line = n] ELSE v
        t == try_enter_toc(v.ctx, n, toc_start_to_end, v.toc_end_stack)
        hs == Append(v.headers, header_group0(line))
    IN IF o.ok THEN [v EXCEPT !.ctx = o.ctx]
       ELSE IF e.ok THEN [v EXCEPT !.ctx = e.ctx]
       ELSE IF StartsWith(line, config.header_text) THEN v
       ELSE IF LineLen(line) > effective_max_line_length
       THEN [v EXCEPT !.error =
                 LineTooLongError(n + 1, effective_max_line_length)]
       ELSE IF is_start /\ t.ok
       THEN [v1 EXCEPT !.ctx = t.ctx, !.toc_end_stack = t.toc_end_stack]
       ELSE IF is_end THEN [v1 EXCEPT !.toc_end_line = n]
       ELSE IF header_pattern(line)
       THEN IF Len(hs) > config.max_headers
            THEN [v1 EXCEPT !.headers = hs,
                            !.header_lines = Append(@, n),
                            !.error = TooManyHeadersError(config.max_headers)]
            ELSE [v1 EXCEPT !.headers = hs, !.header_lines = Append(@, n)]
       ELSE v1

\* ScanToc that forgets the end index when a TOC region is left
ScanToc_no_end(v, line, n) ==
    LET t == try_enter_toc(v.ctx, n, toc_start_to_end, v.toc_end_stack)
        x == try_exit_toc(v.ctx, n, v.toc_end_stack)
    IN IF t.ok
       THEN [v EXCEPT !.ctx = t.ctx, !.toc_end_stack = t.toc_end_stack,
                      !.toc_start_line = n]
       ELSE IF x.ok
       THEN [v EXCEPT !.ctx = x.ctx, !.toc_end_stack = x.toc_end_stack]
       ELSE v

\* ScanToc that keeps the first start index when a nested region is entered
ScanToc_keep_start(v, line, n) ==
    LET t == try_enter_toc(v.ctx, n, toc_start_to_end, v.toc_end_stack)
        x == try_exit_toc(v.ctx, n, v.toc_end_stack)
    IN IF t.ok
       THEN [v EXCEPT !.ctx = t.ctx, !.toc_end_stack = t.toc_end_stack]
       ELSE IF x.ok
       THEN [v EXCEPT !.ctx = x.ctx, !.toc_end_stack = x.toc_end_stack,
                      !.toc_end_line = n]
       ELSE v

\* a line reached in state IN_TOC
ScanToc(v, line, n) ==
    LET t == try_enter_toc(v.ctx, n, toc_start_to_end, v.toc_end_stack)
        x == try_exit_toc(v.ctx, n, v.toc_end_stack)
    IN IF t.ok
       THEN [v EXCEPT !.ctx = t.ctx, !.toc_end_stack = t.toc_end_stack,
                      !.toc_start_line = n]
       ELSE IF x.ok
       THEN [v EXCEPT !.ctx = x.ctx, !.toc_end_stack = x.toc_end_stack,
                      !.toc_end_line = n]
       ELSE v

\* ScanFenced without its "continue": the line goes on through the loop body
ScanFenced_fallthrough(v, line, n) ==
    ScanNormal([v EXCEPT !.ctx = try_close_fence(v.ctx, line).ctx], line, n)

\* a line reached in state IN_FENCED_CODE
ScanFenced(v, line, n) ==
    [v EXCEPT !.ctx = try_close_fence(v.ctx, line).ctx]

\* ScanIndented that drops the line on which the indented block ends
ScanIndented_skip_exit(v, line, n) ==
    [v EXCEPT !.ctx = try_exit_indented_code(v.ctx, line).ctx]

\* a line reached in state IN_INDENTED_CODE
ScanIndented(v, line, n) ==
    LET x == try_exit_indented_code(v.ctx, line)
    IN IF x.ok THEN v
       ELSE ScanNormal([v EXCEPT !.ctx = x.ctx], line, n)

\* one iteration of the second loop
ScanStep(v, line, n) ==
    IF v.ctx.state = IN_FENCED_CODE THEN ScanFenced(v, line, n)
    ELSE IF v.ctx.state = IN_INDENTED_CODE THEN ScanIndented(v, line, n)
    ELSE IF v.ctx.state = IN_TOC THEN ScanToc(v, line, n)
    ELSE ScanNormal(v, line, n)

Locals ==
    [ctx |-> ctx, toc_end_stack |-> toc_end_stack, headers |-> headers,
     header_lines |-> header_lines, toc_start_line |-> toc_start_line,
     toc_end_line |-> toc_end_line, error |-> error]

(***************************************************************************)
(* Actions of parse_markdown.                                              *)
(***************************************************************************)
\* lines 495-539: split the content, run the first pass
Start ==
    /\ pc = "start"
    /\ LET lines == splitlines(content)
           p == PrePass(lines)
       IN /\ full_file' = lines
          /\ toc_intervals' = p.toc_intervals
          /\ toc_start_to_end' = IntervalMap(p.toc_intervals)
          /\ pre_code' = p.code
    /\ pc' = "scan"
    /\ UNCHANGED <<content, max_line_length, config, line_number, ctx,
                   toc_end_stack, headers, header_lines, toc_start_line,
                   toc_end_line, error, gen_vars, text_vars, written>>

\* lines 541-604: one line of the second pass
ScanLine ==
    /\ pc = "scan"
    /\ line_number < Len(full_file)
    /\ LET v == ScanStep(Locals, full_file[line_number + 1], line_number)
       IN /\ ctx' = v.ctx
          /\ toc_end_stack' = v.toc_end_stack
          /\ headers' = v.headers
          /\ header_lines' = v.header_lines
          /\ toc_start_line' = v.toc_start_line
          /\ toc_end_line' = v.toc_end_line
          /\ error' = v.error
          /\ pc' = IF v.error # NoError THEN "error" ELSE "scan"
          /\ line_number' = IF v.error # NoError THEN line_number
                            ELSE line_number + 1
    /\ UNCHANGED <<content, max_line_length, config, full_file,
                   toc_intervals, toc_start_to_end, pre_code, gen_vars,
                   text_vars, written>>

\* lines 606-611: return the ParseResult
Return ==
    /\ pc = "scan"
    /\ line_number = Len(full_file)
    /\ pc' = "done"
    /\ UNCHANGED <<config, headers, parse_vars, gen_vars, text_vars, written>>

Next == Start \/ ScanLine \/ Return

(***************************************************************************)
(* generate_toc_entries (generator.py).                                    *)
(***************************************************************************)
\* level: number of leading hashes; title: the rest, stripped, links removed
heading_level(heading) == Len(heading) - Len(LStrip(heading, {"#"}))

heading_text(heading) ==
    Strip(SubSeq(heading, heading_level(heading) + 1, Len(heading)),
          PyWhitespace)

heading_title(heading) == strip_markdown_links(heading_text(heading))

base_slug_of(heading) ==
    generate_slug(heading_title(heading), config.preserve_unicode)

\* base_slug if count == 0 else base_slug-count
slug_link(base_slug, count) ==
    IF count = 0 THEN base_slug ELSE base_slug \o <<"-">> \o ToDigits(count)

\* while link in used_slugs: count += 1
RECURSIVE probe_count(_, _, _)
probe_count(base_slug, count, used) ==
    IF slug_link(base_slug, count) \in used
    THEN probe_count(base_slug, count + 1, used)
    ELSE count

counter_get(counters, base_slug) ==
    IF base_slug \in DOMAIN counters THEN counters[base_slug] ELSE 0

\* next_count without the probe of used_slugs
next_count_no_probe(base_slug, counters, used) ==
    counter_get(counters, base_slug)

\* next_count whose probe overshoots the first free candidate
next_count_skipping(base_slug, counters, used) ==
    LET count == counter_get(counters, base_slug)
        free == probe_count(base_slug, count, used)
    IN IF free > count THEN free + 1 ELSE free

\* next_count that numbers the duplicates from 2
next_count_from_two(base_slug, counters, used) ==
    LET count == counter_get(counters, base_slug)
    IN probe_count(base_slug, IF count = 0 THEN 0 ELSE count + 1, used)

\* next_count whose counters start at 1
next_count_first_suffixed(base_slug, counters, used) ==
    probe_count(base_slug,
                IF base_slug \in DOMAIN counters THEN counters[base_slug]
                ELSE 1, used)

\* lines 64-73: the counter of the slug given to a header
next_count(base_slug, counters, used) ==
    probe_count(base_slug, counter_get(counters, base_slug), used)

\* toc_entry that indents by the level alone
toc_entry_indent_by_level(heading, link) ==
    Repeat(config.indent_chars, heading_level(heading) - 1)
    \o config.list_style \o <<" ", "[">> \o heading_title(heading)
    \o <<"]", "(", "#">> \o link \o <<")", "\n">>

toc_entry(heading, link) ==
    Repeat(config.indent_chars,
           IF heading_level(heading) - config.min_level > 0
           THEN heading_level(heading) - config.min_level ELSE 0)
    \o config.list_style \o <<" ", "[">> \o heading_title(heading)
    \o <<"]", "(", "#">> \o link \o <<")", "\n">>

\* lines 33-53
GenStart ==
    /\ pc = "gen_start"
    /\ validate_config(config)
    /\ config' = normalize_config(config)
    /\ toc' = <<config'.start_marker \o NL, config'.header_text \o NL \o NL>>
    /\ slug_counters' = <<>>
    /\ used_slugs' = {}
    /\ header_index' = 0
    /\ pc' = "gen_loop"
    /\ UNCHANGED <<headers, parse_vars, base_slugs, links, text_vars, written>>

\* GenEntry that puts the new entry before the earlier ones
GenEntry_newest_first ==
    /\ pc = "gen_loop"
    /\ header_index < Len(headers)
    /\ LET heading == headers[header_index + 1]
           base_slug == base_slug_of(heading)
           count == next_count(base_slug, slug_counters, used_slugs)
           link == slug_link(base_slug, count)
       IN /\ slug_counters' =
                 [b \in DOMAIN slug_counters \cup {base_slug} |->
                     IF b = base_slug THEN count + 1 ELSE slug_counters[b]]
          /\ used_slugs' = used_slugs \cup {link}
          /\ toc' = SubSeq(toc, 1, 2) \o <<toc_entry(heading, link)>>
                    \o SubSeq(toc, 3, Len(toc))
          /\ base_slugs' = Append(base_slugs, base_slug)
          /\ links' = Append(links, link)
    /\ header_index' = header_index + 1
    /\ UNCHANGED <<pc, config, headers, parse_vars, text_vars, written>>

\* lines 55-82: one header
GenEntry ==
    /\ pc = "gen_loop"
    /\ header_index < Len(headers)
    /\ LET heading == headers[header_index + 1]
           base_slug == base_slug_of(heading)
           count == next_count(base_slug, slug_counters, used_slugs)
           link == slug_link(base_slug, count)
       IN /\ slug_counters' =
                 [b \in DOMAIN slug_counters \cup {base_slug} |->
                     IF b = base_slug THEN count + 1 ELSE slug_counters[b]]
          /\ used_slugs' = used_slugs \cup {link}
          /\ toc' = Append(toc, toc_entry(heading, link))
          /\ base_slugs' = Append(base_slugs, base_slug)
          /\ links' = Append(links, link)
    /\ header_index' = header_index + 1
    /\ UNCHANGED <<pc, config, headers, parse_vars, text_vars, written>>

\* lines 84-86
GenFinish ==
    /\ pc = "gen_loop"
    /\ header_index = Len(headers)
    /\ toc' = Append(toc, config.end_marker \o NL)
    /\ pc' = "gen_done"
    /\ UNCHANGED <<config, headers, parse_vars, slug_counters, used_slugs,
                   header_index, base_slugs, links, text_vars, written>>

NextGen == GenStart \/ GenEntry \/ GenFinish

(***************************************************************************)
(* validate_toc_markers (generator.py).                                    *)
(***************************************************************************)
ConfigError == [kind |-> "ConfigError", line_number |-> 0, limit |-> 0]

\* ValueError("Invalid TOC markers: ..."), with the 1-based start line
InvalidMarkersError(start) ==
    [kind |-> "ValueError", line_number |-> start + 1, limit |-> 0]

\* ValueError("TOC section is suspiciously large (toc_size lines)")
SuspiciousSizeError(toc_size) ==
    [kind |-> "ValueError", line_number |-> 0, limit |-> toc_size]

max_toc_lines(cfg) == cfg.max_headers + 100

\* validate_toc_markers that rejects a span of exactly max_toc_lines
validate_toc_markers_strict(start, end, cfg) ==
    IF ~validate_config(cfg) THEN ConfigError
    ELSE IF start >= end THEN InvalidMarkersError(start)
    ELSE IF end - start >= max_toc_lines(cfg)
    THEN SuspiciousSizeError(end - start)
    ELSE NoError

\* the exception validate_toc_markers raises, NoError when it returns
validate_toc_markers(start, end, cfg) ==
    IF ~validate_config(cfg) THEN ConfigError
    ELSE IF start >= end THEN InvalidMarkersError(start)
    ELSE IF end - start > max_toc_lines(cfg)
    THEN SuspiciousSizeError(end - start)
    ELSE NoError

ValidateMarkers ==
    /\ pc = "validate"
    /\ error' = validate_toc_markers(toc_start_line, toc_end_line, config)
    /\ pc' = IF error' = NoError THEN "validated" ELSE "invalid"
    /\ UNCHANGED <<config, headers, content, max_line_length, full_file,
                   toc_intervals, toc_start_to_end, pre_code, line_number,
                   ctx, toc_end_stack, header_lines, toc_start_line,
                   toc_end_line, gen_vars, text_vars, written>>

NextVal == ValidateMarkers

(***************************************************************************)
(* One run of the command on a file, and the next run on what it wrote.    *)
(***************************************************************************)
\* the parse returned: the TOC is generated from its headers
GenerateToc ==
    /\ pc = "done"
    /\ pc' = "gen_start"
    /\ base_slugs' = <<>>
    /\ links' = <<>>
    /\ UNCHANGED <<config, headers, parse_vars, toc, slug_counters,
                   used_slugs, header_index, text_vars, written>>

\* both markers found: the file is updated after validate_toc_markers;
\* otherwise the TOC is printed
Dispatch ==
    /\ pc = "gen_done"
    /\ pc' = IF toc_start_line # None /\ toc_end_line # None
             THEN "validate" ELSE "printed"
    /\ UNCHANGED <<config, headers, parse_vars, gen_vars, text_vars,
                   written>>

\* update_toc: the file now holds the lines written
UpdateToc ==
    /\ pc = "validated"
    /\ LET lines == update_toc(full_file, toc, toc_start_line, toc_end_line)
       IN /\ content' = Flatten(lines)
          /\ written' = Append(written,
                               [full_file |-> full_file,
                                toc |-> toc,
                                toc_start_line |-> toc_start_line,
                                toc_end_line |-> toc_end_line,
                                content |-> Flatten(lines)])
    /\ pc' = "written"
    /\ UNCHANGED <<config, headers, max_line_length, full_file,
                   toc_intervals, toc_start_to_end, pre_code, line_number,
                   ctx, toc_end_stack, header_lines, toc_start_line,
                   toc_end_line, error, gen_vars, text_vars>>

\* the command is run again on the file: parse_markdown starts afresh
RunAgain ==
    /\ pc = "written"
    /\ Len(written) < MaxRuns
    /\ pc' = "start"
    /\ full_file' = <<>>
    /\ toc_intervals' = <<>>
    /\ toc_start_to_end' = <<>>
    /\ pre_code' = {}
    /\ line_number' = 0
    /\ ctx' = ParserContext
    /\ toc_end_stack' = <<>>
    /\ headers' = <<>>
    /\ header_lines' = <<>>
    /\ toc_start_line' = None
    /\ toc_end_line' = None
    /\ UNCHANGED <<config, content, max_line_length, error, gen_vars,
                   text_vars, written>>

NextRegen ==
    \/ Start \/ ScanLine \/ Return
    \/ GenerateToc
    \/ GenStart \/ GenEntry \/ GenFinish
    \/ Dispatch
    \/ ValidateMarkers
    \/ UpdateToc
    \/ RunAgain

(***************************************************************************)
(* generate_slug and strip_markdown_links called on their own.             *)
(***************************************************************************)
Slugify ==
    /\ pc = "slug"
    /\ slug_first' = generate_slug(input_text, config.preserve_unicode)
    /\ pc' = "slugged"
    /\ UNCHANGED <<config, headers, parse_vars, gen_vars, input_text,
                   slug_second, stripped_text, link_parts, pieces,
                   written>>

SlugifyAgain ==
    /\ pc = "slugged"
    /\ slug_second' = generate_slug(slug_first, config.preserve_unicode)
    /\ pc' = "reslugged"
    /\ UNCHANGED <<config, headers, parse_vars, gen_vars, input_text,
                   slug_first, stripped_text, link_parts, pieces,
                   written>>

NextSlug == Slugify \/ SlugifyAgain

StripLinks ==
    /\ pc = "strip"
    /\ stripped_text' = strip_markdown_links(input_text)
    /\ pc' = "stripped"
    /\ UNCHANGED <<config, headers, parse_vars, gen_vars, input_text,
                   slug_first, slug_second, link_parts, pieces,
                   written>>

NextStrip == StripLinks

(***************************************************************************)
(* Inputs.                                                                 *)
(***************************************************************************)
L_start == S_start_marker \o NL
L_end == S_end_marker \o NL
L_h2 == <<"#", "#", " ", "a", "\n">>
L_h3_crlf == <<"#", "#", "#", " ", "b", "\r", "\n">>
L_fence == <<BACKTICK, BACKTICK, BACKTICK, "\n">>
L_indented_h2 == <<" ", " ", " ", " ", "#", "#", " ", "a", "\n">>
L_blank == NL
L_toc_header == S_header_text \o NL
L_text_noeol == <<"x">>

CoreLines ==
    {L_start, L_end, L_h2, L_h3_crlf, L_fence, L_indented_h2, L_blank,
     L_text_noeol}

LineLengthOverrides == {None, 12}

Documents(pool, n) ==
    {Flatten(parts) : parts \in UNION {[1..k -> pool] : k \in 0..n}}

InitWith(docs, configs, overrides) ==
    /\ pc = "start"
    /\ content \in docs
    /\ config \in {c \in configs : validate_config(c)}
    /\ max_line_length \in overrides
    /\ full_file = <<>>
    /\ toc_intervals = <<>>
    /\ toc_start_to_end = <<>>
    /\ pre_code = {}
    /\ line_number = 0
    /\ ctx = ParserContext
    /\ toc_end_stack = <<>>
    /\ headers = <<>>
    /\ header_lines = <<>>
    /\ toc_start_line = None
    /\ toc_end_line = None
    /\ error = NoError
    /\ toc = <<>>
    /\ slug_counters = <<>>
    /\ used_slugs = {}
    /\ header_index = 0
    /\ base_slugs = <<>>
    /\ links = <<>>
    /\ input_text = <<>>
    /\ slug_first = <<>>
    /\ slug_second = <<>>
    /\ stripped_text = <<>>
    /\ link_parts = NoParts
    /\ pieces = <<>>
    /\ written = <<>>

Init == InitWith(Documents(CoreLines, MaxLines), {TocConfig}, LineLengthOverrides)

Spec == Init /\ [][Next]_vars

\* documents made of header-like lines, under two configurations
L_h1 == <<"#", " ", "a", "\n">>
L_h3 == <<"#", "#", "#", " ", "a", "\n">>
L_h4 == <<"#", "#", "#", "#", " ", "a", "\n">>
L_nospace == <<"#", "#", "N", "o", "S", "p", "a", "c", "e", "\n">>
L_tab == <<"#", "#", "\t", "a", "\n">>
L_blank_title == <<"#", "#", " ", " ", "\t", "\n">>
L_toc_appendix ==
    S_header_text \o <<" ", "A", "p", "p", "e", "n", "d", "i", "x", "\n">>

HeaderLines ==
    {L_h1, L_h2, L_h3, L_h4, L_nospace, L_tab, L_blank_title, L_h3_crlf,
     L_toc_header, L_toc_appendix, L_fence, L_indented_h2}

LowLevelsConfig ==
    [TocConfig EXCEPT !.min_level = 1, !.max_level = 2, !.max_headers = 2]

SingleHeaderConfig == [TocConfig EXCEPT !.max_headers = 1]

InitHdr ==
    InitWith(Documents(HeaderLines, MaxHdrLines),
             {TocConfig, LowLevelsConfig, SingleHeaderConfig}, {None})

SpecHdr == InitHdr /\ [][Next]_vars

\* documents made of lines around the length limit, with a limit of 13
L_long == <<"x", "x", "x", "x", "x", "x", "x", "x", "x", "x", "x", "x", "x",
            "x", "\n">>
L_exact_crlf ==
    <<"y", "y", "y", "y", "y", "y", "y", "y", "y", "y", "y", "y", "y", "\r",
      "\n">>
L_start_long == S_start_marker \o <<" ", "x", "\n">>
B_fake_start == L_fence \o L_start \o L_fence
B_fake_end == L_fence \o L_end \o L_fence

LengthParts ==
    {L_start, L_end, L_long, L_exact_crlf, L_fence, L_toc_header,
     L_toc_appendix, L_start_long, B_fake_start, B_fake_end}

LengthLimit == Len(S_end_marker)

InitLen ==
    InitWith(Documents(LengthParts, MaxLenParts), {TocConfig}, {LengthLimit})

SpecLen == InitLen /\ [][Next]_vars

\* header lists given to generate_toc_entries
H_header == <<"#", "#", " ", "H", "e", "a", "d", "e", "r">>
H_header_h3 == <<"#", "#", "#", " ", "H", "e", "a", "d", "e", "r">>
H_header_lower == <<"#", "#", " ", "h", "e", "a", "d", "e", "r", "!">>
H_header_1 == <<"#", "#", " ", "H", "e", "a", "d", "e", "r", " ", "1">>
H_other_link ==
    <<"#", "#", "#", "#", " ", "[", "O", "t", "h", "e", "r", "]", "(", "u",
      ")">>

GenHeadings ==
    {H_header, H_header_h3, H_header_lower, H_header_1, H_other_link}

BulletConfig ==
    [TocConfig EXCEPT !.list_style = S_unordered, !.indent_spaces = 2,
                      !.min_level = 3, !.max_level = 4]

InitGen ==
    /\ pc = "gen_start"
    /\ headers \in UNION {[1..k -> GenHeadings] : k \in 0..MaxGenHeaders}
    /\ config \in {TocConfig, BulletConfig}
    /\ content = <<>>
    /\ max_line_length = None
    /\ full_file = <<>>
    /\ toc_intervals = <<>>
    /\ toc_start_to_end = <<>>
    /\ pre_code = {}
    /\ line_number = 0
    /\ ctx = ParserContext
    /\ toc_end_stack = <<>>
    /\ header_lines = <<>>
    /\ toc_start_line = None
    /\ toc_end_line = None
    /\ error = NoError
    /\ toc = <<>>
    /\ slug_counters = <<>>
    /\ used_slugs = {}
    /\ header_index = 0
    /\ base_slugs = <<>>
    /\ links = <<>>
    /\ input_text = <<>>
    /\ slug_first = <<>>
    /\ slug_second = <<>>
    /\ stripped_text = <<>>
    /\ link_parts = NoParts
    /\ pieces = <<>>
    /\ written = <<>>

SpecGen == InitGen /\ [][NextGen]_vars

\* marker positions given to validate_toc_markers
TwoHeadersConfig == [TocConfig EXCEPT !.max_headers = 2]
NoHeadersConfig == [TocConfig EXCEPT !.max_headers = 0]

InitVal ==
    /\ pc = "validate"
    /\ toc_start_line \in 0..MaxMarkerLine
    /\ toc_end_line \in 0..MaxMarkerLine
    /\ config \in {SingleHeaderConfig, TwoHeadersConfig, NoHeadersConfig}
    /\ headers = <<>>
    /\ content = <<>>
    /\ max_line_length = None
    /\ full_file = <<>>
    /\ toc_intervals = <<>>
    /\ toc_start_to_end = <<>>
    /\ pre_code = {}
    /\ line_number = 0
    /\ ctx = ParserContext
    /\ toc_end_stack = <<>>
    /\ header_lines = <<>>
    /\ error = NoError
    /\ toc = <<>>
    /\ slug_counters = <<>>
    /\ used_slugs = {}
    /\ header_index = 0
    /\ base_slugs = <<>>
    /\ links = <<>>
    /\ input_text = <<>>
    /\ slug_first = <<>>
    /\ slug_second = <<>>
    /\ stripped_text = <<>>
    /\ link_parts = NoParts
    /\ pieces = <<>>
    /\ written = <<>>

SpecVal == InitVal /\ [][NextVal]_vars

\* texts given to generate_slug and to strip_markdown_links
Texts(alphabet, n) == UNION {[1..k -> alphabet] : k \in 0..n}

InitText(start, texts, configs) ==
    /\ pc = start
    /\ input_text \in texts
    /\ config \in configs
    /\ slug_first = <<>>
    /\ slug_second = <<>>
    /\ stripped_text = <<>>
    /\ link_parts = NoParts
    /\ pieces = <<>>
    /\ written = <<>>
    /\ headers = <<>>
    /\ content = <<>>
    /\ max_line_length = None
    /\ full_file = <<>>
    /\ toc_intervals = <<>>
    /\ toc_start_to_end = <<>>
    /\ pre_code = {}
    /\ line_number = 0
    /\ ctx = ParserContext
    /\ toc_end_stack = <<>>
    /\ header_lines = <<>>
    /\ toc_start_line = None
    /\ toc_end_line = None
    /\ error = NoError
    /\ toc = <<>>
    /\ slug_counters = <<>>
    /\ used_slugs = {}
    /\ header_index = 0
    /\ base_slugs = <<>>
    /\ links = <<>>

SlugAlphabet ==
    {"a", "B", " ", "-", "_", "!", E_ACUTE, COMBINING_ACUTE, NBSP}

UnicodeConfig == [TocConfig EXCEPT !.preserve_unicode = TRUE]

InitSlug ==
    InitText("slug", Texts(SlugAlphabet, MaxTitleLen),
             {TocConfig, UnicodeConfig})

SpecSlug == InitSlug /\ [][NextSlug]_vars

\* texts made of one inline link and the text around it
LinkString(parts) ==
    parts.prefix \o <<"[">> \o parts.text \o <<"]", "(">> \o parts.target
    \o <<")">> \o parts.suffix

TargetAlphabet == {"u", "(", ")", "\\", "<", ">"}

Prefixes == {<<>>, <<"x", " ">>}
LinkTexts == {<<"a">>, <<"T", " ", "t">>}
Suffixes == {<<>>, <<" ", "y">>}

InitStrip ==
    /\ pc = "strip"
    /\ link_parts \in [prefix : Prefixes, text : LinkTexts,
                        target : Texts(TargetAlphabet, MaxTargetLen),
                        suffix : Suffixes]
    /\ input_text = LinkString(link_parts)
    /\ pieces = <<>>
    /\ written = <<>>
    /\ config = TocConfig
    /\ slug_first = <<>>
    /\ slug_second = <<>>
    /\ stripped_text = <<>>
    /\ headers = <<>>
    /\ content = <<>>
    /\ max_line_length = None
    /\ full_file = <<>>
    /\ toc_intervals = <<>>
    /\ toc_start_to_end = <<>>
    /\ pre_code = {}
    /\ line_number = 0
    /\ ctx = ParserContext
    /\ toc_end_stack = <<>>
    /\ header_lines = <<>>
    /\ toc_start_line = None
    /\ toc_end_line = None
    /\ error = NoError
    /\ toc = <<>>
    /\ slug_counters = <<>>
    /\ used_slugs = {}
    /\ header_index = 0
    /\ base_slugs = <<>>
    /\ links = <<>>

SpecStrip == InitStrip /\ [][NextStrip]_vars

\* documents made of fence lines
L_tilde == <<"~", "~", "~", "\n">>
L_fence4 == <<BACKTICK, BACKTICK, BACKTICK, BACKTICK, "\n">>
L_fence5_blanks == <<BACKTICK, BACKTICK, BACKTICK, BACKTICK, BACKTICK, " ", " ", "\n">>
L_tilde4 == <<"~", "~", "~", "~", "\n">>
L_fence_in3 == <<" ", " ", " ", BACKTICK, BACKTICK, BACKTICK, "\n">>
L_fence_in4 == <<" ", " ", " ", " ", BACKTICK, BACKTICK, BACKTICK, "\n">>
L_fence_in6 == <<" ", " ", " ", " ", " ", " ", BACKTICK, BACKTICK, BACKTICK, "\n">>
L_fence_info == <<BACKTICK, BACKTICK, BACKTICK, " ", "x", "\n">>
L_fence2 == <<BACKTICK, BACKTICK, "\n">>

FenceLines ==
    {L_fence, L_tilde, L_fence4, L_fence5_blanks, L_tilde4, L_fence_in3,
     L_fence_in4, L_fence_in6, L_fence_info, L_fence2, L_h2}

InitFence ==
    InitWith(Documents(FenceLines, MaxFenceLines), {TocConfig}, {None})

SpecFence == InitFence /\ [][Next]_vars

\* documents made of indented lines, fence lines and markers
L_fence_tab == <<"\t", BACKTICK, BACKTICK, BACKTICK, "\n">>
L_fence_mixed == <<" ", " ", "\t", BACKTICK, BACKTICK, BACKTICK, "\n">>
L_blank_ws == <<" ", " ", "\n">>

IndentLines ==
    {L_indented_h2, L_blank, L_blank_ws, L_h2, L_fence, L_fence2,
     L_fence_tab, L_fence_mixed, L_fence_in3, L_fence_in4, L_start, L_end}

InitIndent ==
    InitWith(Documents(IndentLines, MaxIndentLines), {TocConfig}, {None})

SpecIndent == InitIndent /\ [][Next]_vars

\* texts made of inline pieces: what a piece is made of (raw), what is to be
\* seen of it (visible), and the places of its link target or label (hidden)
P_code_link ==
    [raw |->
        <<BACKTICK, "[", "c", "]", "(", "x", ")", BACKTICK>>,
     visible |->
        <<BACKTICK, "[", "c", "]", "(", "x", ")", BACKTICK>>,
     hidden |-> {}]
P_code_image ==
    [raw |->
        <<BACKTICK, BACKTICK, "!", "[", "i", "]", BACKTICK, "(", "s",
          ")", BACKTICK, BACKTICK>>,
     visible |->
        <<BACKTICK, BACKTICK, "!", "[", "i", "]", BACKTICK, "(", "s",
          ")", BACKTICK, BACKTICK>>,
     hidden |-> {}]
P_link ==
    [raw |->
        <<"[", "t", "]", "(", "y", ")">>,
     visible |->
        <<"t">>,
     hidden |-> {}]
P_image ==
    [raw |->
        <<"!", "[", "i", "]", "(", "s", ")">>,
     visible |->
        <<"i">>,
     hidden |-> {}]
P_plain ==
    [raw |->
        <<" ", "x", " ">>,
     visible |->
        <<" ", "x", " ">>,
     hidden |-> {}]
P_link_code_text ==
    [raw |->
        <<"[", BACKTICK, "k", BACKTICK, "]", "(", "u", ")">>,
     visible |->
        <<BACKTICK, "k", BACKTICK>>,
     hidden |-> {}]
P_link_code_target ==
    [raw |->
        <<"[", "a", "]", "(", BACKTICK, "b", BACKTICK, ")">>,
     visible |->
        <<"a">>,
     hidden |-> {<<4, 7>>}]
P_ref_code_label ==
    [raw |->
        <<"[", "r", "]", "[", BACKTICK, "l", BACKTICK, "]">>,
     visible |->
        <<"r">>,
     hidden |-> {<<4, 7>>}]
P_tick ==
    [raw |->
        <<BACKTICK>>,
     visible |->
        <<BACKTICK>>,
     hidden |-> {}]
P_escaped_tick ==
    [raw |->
        <<"\\", BACKTICK>>,
     visible |->
        <<"\\", BACKTICK>>,
     hidden |-> {}]

InlinePieces ==
    {P_code_link, P_code_image, P_link, P_image, P_plain, P_link_code_text,
     P_link_code_target, P_ref_code_label, P_tick, P_escaped_tick}

RawText(ps) == Flatten([i \in DOMAIN ps |-> ps[i].raw])

InitPieces(pool) ==
    /\ pc = "strip"
    /\ pieces \in UNION {[1..k -> pool] : k \in 0..MaxPieces}
    /\ written = <<>>
    /\ input_text = RawText(pieces)
    /\ link_parts = NoParts
    /\ config = TocConfig
    /\ slug_first = <<>>
    /\ slug_second = <<>>
    /\ stripped_text = <<>>
    /\ headers = <<>>
    /\ content = <<>>
    /\ max_line_length = None
    /\ full_file = <<>>
    /\ toc_intervals = <<>>
    /\ toc_start_to_end = <<>>
    /\ pre_code = {}
    /\ line_number = 0
    /\ ctx = ParserContext
    /\ toc_end_stack = <<>>
    /\ header_lines = <<>>
    /\ toc_start_line = None
    /\ toc_end_line = None
    /\ error = NoError
    /\ toc = <<>>
    /\ slug_counters = <<>>
    /\ used_slugs = {}
    /\ header_index = 0
    /\ base_slugs = <<>>
    /\ links = <<>>

InitInline == InitPieces(InlinePieces)

SpecInline == InitInline /\ [][NextStrip]_vars

\* texts made of escaped image markers and of links
P_escaped_image ==
    [raw |->
        <<"\\", "!", "[", "e", "]", "(", "u", ")">>,
     visible |->
        <<"\\", "!", "[", "e", "]", "(", "u", ")">>,
     hidden |-> {}]
P_escaped_nested ==
    [raw |->
        <<"\\", "!", "[", "[", "n", "]", "(", "v", ")", "]", "(",
          "u", ")">>,
     visible |->
        <<"\\", "!", "[", "[", "n", "]", "(", "v", ")", "]", "(",
          "u", ")">>,
     hidden |-> {}]
P_double_escaped ==
    [raw |->
        <<"\\", "\\", "!", "[", "d", "]", "(", "u", ")">>,
     visible |->
        <<"\\", "\\", "d">>,
     hidden |-> {}]

EscapedImages == {P_escaped_image, P_escaped_nested}

EscapedPieces == EscapedImages \cup {P_double_escaped, P_link, P_image, P_plain}

InitEscaped == InitPieces(EscapedPieces)

SpecEscaped == InitEscaped /\ [][NextStrip]_vars

\* files updated in place twice, under the default configuration
RegenLines ==
    {L_start, L_end, L_h2, L_h3_crlf, L_fence, L_indented_h2}

InitRegen == InitWith(Documents(RegenLines, MaxRegenLines), {TocConfig}, {None})

SpecRegen == InitRegen /\ [][NextRegen]_vars

(***************************************************************************)
(* Properties of parse_markdown.                                           *)
(***************************************************************************)
Done == pc = "done"

LineIndices == 0..(Len(full_file) - 1)

LineAt(i) == full_file[i + 1]

SetMax(S) == CHOOSE x \in S : \A y \in S : y <= x

SetMin(S) == CHOOSE x \in S : \A y \in S : x <= y

\* lines outside code blocks that start with the given marker
MarkerLines(marker) ==
    {i \in LineIndices : i \notin pre_code /\ StartsWith(LineAt(i), marker)}

InTocRegion(i) ==
    \E k \in DOMAIN toc_intervals :
        toc_intervals[k][1] <= i /\ i <= toc_intervals[k][2]

Recorded(i) == \E k \in DOMAIN header_lines : header_lines[k] = i

HashRun(line) == CountLeading(line, {"#"})

\* C1: no header, start marker or end marker is ever reported from a line
\* that lies inside a fenced or an indented code block.
C1_CodeBlockExemption ==
    /\ \A k \in DOMAIN header_lines : header_lines[k] \notin pre_code
    /\ toc_start_line # None => toc_start_line \notin pre_code
    /\ toc_end_line # None => toc_end_line \notin pre_code

C1_Witness ==
    /\ Done
    /\ \E i \in pre_code : header_pattern(LineAt(i))
    /\ \E i \in pre_code : StartsWith(LineAt(i), config.start_marker)
    /\ headers # <<>>

\* C6 as stated: whenever both marker indices are present, start < end.
C6_StartBeforeEnd ==
    (Done /\ toc_start_line # None /\ toc_end_line # None)
        => toc_start_line < toc_end_line

\* C6 amended: when both indices are present they differ, and start < end
\* holds exactly when an end-marker line outside code blocks follows the
\* reported start marker; otherwise the reversed pair is returned.
C6_StartBeforeEndWhenPaired ==
    (Done /\ toc_start_line # None /\ toc_end_line # None)
        => /\ toc_start_line # toc_end_line
           /\ toc_start_line < toc_end_line
                  <=> \E j \in MarkerLines(config.end_marker) :
                          j > toc_start_line

C6_Witness ==
    /\ Done
    /\ toc_start_line # None
    /\ toc_end_line # None
    /\ toc_start_line < toc_end_line
    /\ \E j \in MarkerLines(config.end_marker) : j < toc_start_line

\* C7 as stated: the first start-marker (end-marker) line outside code
\* blocks is the one reported.
C7_FirstMarkerReported ==
    Done =>
        /\ MarkerLines(config.start_marker) # {}
              => toc_start_line = SetMin(MarkerLines(config.start_marker))
        /\ MarkerLines(config.end_marker) # {}
              => toc_end_line = SetMin(MarkerLines(config.end_marker))

\* C7 amended: the last start-marker (end-marker) line outside code blocks
\* is the one reported, and no index is reported when there is no such line.
C7_LastMarkerReported ==
    Done =>
        /\ toc_start_line =
              IF MarkerLines(config.start_marker) = {} THEN None
              ELSE SetMax(MarkerLines(config.start_marker))
        /\ toc_end_line =
              IF MarkerLines(config.end_marker) = {} THEN None
              ELSE SetMax(MarkerLines(config.end_marker))

C7_Witness ==
    /\ Done
    /\ Cardinality(MarkerLines(config.start_marker)) >= 2
    /\ Cardinality(MarkerLines(config.end_marker)) >= 2
    /\ toc_start_line = SetMax(MarkerLines(config.start_marker))

\* C8: a recorded header comes from a line whose leading run of hashes has
\* a length within min_level..max_level (2..3 by default), and the recorded
\* headers are in document order.
C8_HeaderLevels ==
    /\ Len(headers) = Len(header_lines)
    /\ \A k \in DOMAIN header_lines :
          /\ HashRun(LineAt(header_lines[k])) >= config.min_level
          /\ HashRun(LineAt(header_lines[k])) <= config.max_level
          /\ config = TocConfig => HashRun(LineAt(header_lines[k])) \in {2, 3}
          /\ HashRun(headers[k]) = HashRun(LineAt(header_lines[k]))
          /\ StartsWith(LineAt(header_lines[k]), headers[k])
    /\ \A k, m \in DOMAIN header_lines :
          k < m => header_lines[k] < header_lines[m]

C8_Witness ==
    /\ Done
    /\ headers # <<>>
    /\ \E i \in LineIndices \ pre_code :
          HashRun(LineAt(i)) \in 1..(config.min_level - 1)
          /\ LineAt(i)[HashRun(LineAt(i)) + 1] = " "
    /\ \E i \in LineIndices \ pre_code :
          HashRun(LineAt(i)) > config.max_level
          /\ LineAt(i)[HashRun(LineAt(i)) + 1] = " "

\* C9: every line outside code blocks and TOC regions whose hash run, within
\* the level bounds, is followed by a space or a tab is recorded as a header
\* (the TOC header line itself excepted).
C9_SpaceOrTabHeader ==
    Done =>
        \A i \in LineIndices :
            (/\ i \notin pre_code
             /\ ~InTocRegion(i)
             /\ ~StartsWith(LineAt(i), config.header_text)
             /\ HashRun(LineAt(i)) >= config.min_level
             /\ HashRun(LineAt(i)) <= config.max_level
             /\ Len(LineAt(i)) > HashRun(LineAt(i))
             /\ LineAt(i)[HashRun(LineAt(i)) + 1] \in {" ", "\t"})
                => Recorded(i)

\* C10: only a line that is exactly header_text is skipped as the TOC
\* header; a header line that merely starts with header_text is recorded.
C10_OnlyExactTocHeaderSkipped ==
    Done =>
        \A i \in LineIndices :
            (/\ i \notin pre_code
             /\ ~InTocRegion(i)
             /\ header_pattern(LineAt(i))
             /\ Strip(LineAt(i), PyWhitespace) # config.header_text)
                => Recorded(i)

(***************************************************************************)
(* Properties of generate_toc_entries.                                     *)
(***************************************************************************)
Emitted == 1..Len(links)
BaseAt(i) == base_slugs[i]
EarlierLinks(i) == {links[j] : j \in 1..(i - 1)}
EarlierBases(i) == {BaseAt(j) : j \in 1..(i - 1)}
SameTitle(i) ==
    {j \in Emitted : heading_text(headers[j]) = heading_text(headers[i])}
Targets(i) ==
    {slug_link(BaseAt(i), k) : k \in 0..(Cardinality(SameTitle(i)) - 1)}
Undisturbed(i) == \A j \in Emitted \ SameTitle(i) : links[j] \notin Targets(i)
LowestUnused(i, n) ==
    /\ slug_link(BaseAt(i), n) \notin EarlierLinks(i)
    /\ \A m \in 1..(n - 1) : slug_link(BaseAt(i), m) \in EarlierLinks(i)

\* C2: the slugs emitted by one generate_toc_entries call are pairwise
\* distinct, also when a header's base slug equals a slug an earlier header
\* received with a numeric suffix.
C2_SlugsDistinct ==
    \A i, j \in Emitted : i # j => links[i] # links[j]

\* a cascading collision happened: the base slug of a header was taken by the
\* suffixed slug of an earlier header
C2_Witness ==
    /\ pc = "gen_done"
    /\ \E i \in Emitted : \E j \in 1..(i - 1) :
          /\ links[j] = BaseAt(i)
          /\ BaseAt(j) # links[j]
          /\ links[i] # BaseAt(i)

\* C3: a title that occurs n times, with no other header producing one of
\* base, base-1, ..., base-(n-1), gets exactly these slugs in document order,
\* whatever the levels of the headers and whatever lies between them.
C3_DuplicatesNumberedInOrder ==
    \A i \in Emitted :
        Undisturbed(i) =>
            links[i] = slug_link(BaseAt(i),
                                 Cardinality({j \in SameTitle(i) : j < i}))

\* three occurrences of one title, at two levels, with another header between
C3_Witness ==
    /\ pc = "gen_done"
    /\ \E i \in Emitted :
          /\ Cardinality(SameTitle(i)) >= 3
          /\ Undisturbed(i)
          /\ links[i] = slug_link(BaseAt(i), 2)
          /\ \E j \in SameTitle(i) :
                heading_level(headers[j]) # heading_level(headers[i])
          /\ \E j \in Emitted \ SameTitle(i) :
                \E k \in SameTitle(i) : k < j /\ j < i

\* C4: a header whose base slug was already produced by an earlier header
\* receives base-N with N the smallest integer >= 1 such that base-N was not
\* emitted earlier.
C4_LowestUnusedSuffix ==
    \A i \in Emitted :
        (BaseAt(i) \in EarlierLinks(i) \cup EarlierBases(i)) =>
            \E n \in 1..i :
                /\ links[i] = slug_link(BaseAt(i), n)
                /\ LowestUnused(i, n)

\* the counter of the base slug pointed at a slug already taken by a header
\* with another base slug, and the probe moved on to the next free suffix
C4_Witness ==
    /\ pc = "gen_done"
    /\ \E i \in Emitted :
          /\ Cardinality({j \in 1..(i - 1) : BaseAt(j) = BaseAt(i)}) = 1
          /\ links[i] = slug_link(BaseAt(i), 2)
          /\ LowestUnused(i, 2)

\* C5 as stated: the first header that produces a given base slug is emitted
\* with that base slug, without a numeric suffix.
C5_FirstOccurrenceUnsuffixed ==
    \A i \in Emitted :
        BaseAt(i) \notin EarlierBases(i) => links[i] = BaseAt(i)

\* C5 amended: the first header that produces a given base slug is emitted
\* with that base slug unless an earlier header was already emitted with it;
\* in that case it receives the lowest unused suffix.
C5_FirstOccurrenceUnsuffixedIfFree ==
    \A i \in Emitted :
        BaseAt(i) \notin EarlierBases(i) =>
            IF BaseAt(i) \notin EarlierLinks(i)
            THEN links[i] = BaseAt(i)
            ELSE \E n \in 1..i :
                    /\ links[i] = slug_link(BaseAt(i), n)
                    /\ LowestUnused(i, n)

\* both cases in one run: a first occurrence that keeps its base slug and a
\* first occurrence whose base slug was taken by an earlier duplicate
C5_Witness ==
    /\ pc = "gen_done"
    /\ \E i \in Emitted :
          /\ BaseAt(i) \notin EarlierBases(i)
          /\ BaseAt(i) \in EarlierLinks(i)
          /\ links[i] = slug_link(BaseAt(i), 1)
    /\ \E i \in Emitted :
          /\ BaseAt(i) \notin EarlierBases(i)
          /\ links[i] = BaseAt(i)

\* the line is the TOC header line: header_text and a line ending
TocHeaderLine(i) ==
    LineAt(i) \in {config.header_text, config.header_text \o <<"\n">>,
                   config.header_text \o <<"\r", "\n">>}

TooLong(i) == LineLen(LineAt(i)) > effective_max_line_length

\* the line follows a start marker, up to and including the end marker
\* paired with it
TocContent(i) ==
    \E k \in DOMAIN toc_intervals :
        toc_intervals[k][1] < i /\ i <= toc_intervals[k][2]

Offending(i) ==
    /\ i \notin pre_code
    /\ ~TocHeaderLine(i)
    /\ ~TocContent(i)
    /\ TooLong(i)

\* C11: parse_markdown raises LineTooLongError exactly when some line outside
\* code, other than the TOC header line and outside every validated TOC
\* region, is longer than the effective limit; the error carries the 1-based
\* number of the first such line and the limit, and no result is returned.
C11_LineTooLongExactly ==
    /\ pc = "done" => \A i \in LineIndices : ~Offending(i)
    /\ (pc = "error" /\ error.kind = "LineTooLongError") =>
          /\ \E i \in LineIndices : Offending(i)
          /\ error.line_number =
                1 + SetMin({i \in LineIndices : Offending(i)})
          /\ error.limit = effective_max_line_length

\* the lines the second loop went past without raising
Passed(i) == pc \in {"scan", "error", "done"} /\ i < line_number

\* C12: an over-long line outside code (and not skipped as the TOC header)
\* gets past the length check only if it lies after a start marker and up to
\* the end marker paired with it, both marker lines outside code blocks.
C12_ExemptOnlyInsideToc ==
    \A i \in LineIndices :
        (/\ Passed(i)
         /\ TooLong(i)
         /\ i \notin pre_code
         /\ ~StartsWith(LineAt(i), config.header_text)) =>
            \E k \in DOMAIN toc_intervals :
                /\ toc_intervals[k][1] < i /\ i <= toc_intervals[k][2]
                /\ toc_intervals[k][1] \in MarkerLines(config.start_marker)
                /\ toc_intervals[k][2] \in MarkerLines(config.end_marker)

\* an over-long line between two code blocks, the first holding a start
\* marker and the second an end marker, raised LineTooLongError
C12_Witness ==
    /\ pc = "error"
    /\ error.kind = "LineTooLongError"
    /\ \E s, e \in pre_code :
          /\ StartsWith(LineAt(s), config.start_marker)
          /\ StartsWith(LineAt(e), config.end_marker)
          /\ s < error.line_number - 1
          /\ error.line_number - 1 < e

\* the lines parse_markdown takes for headers
HeaderLineIndices ==
    {i \in LineIndices :
        /\ i \notin pre_code
        /\ ~InTocRegion(i)
        /\ ~StartsWith(LineAt(i), config.header_text)
        /\ header_pattern(LineAt(i))}

HeadersUpTo(i) == {j \in HeaderLineIndices : j <= i}

\* C13: unless a line fails the length check first, parse_markdown raises
\* TooManyHeadersError(max_headers) exactly when the document has more than
\* max_headers header lines, on header number max_headers + 1 and without
\* scanning further; with at most max_headers headers all are returned.
C13_TooManyHeadersExactly ==
    /\ pc = "done" =>
          /\ Cardinality(HeaderLineIndices) <= config.max_headers
          /\ Len(headers) = Cardinality(HeaderLineIndices)
          /\ \A i \in HeaderLineIndices : Recorded(i)
    /\ (pc = "error" /\ error.kind = "TooManyHeadersError") =>
          /\ error.limit = config.max_headers
          /\ line_number \in HeaderLineIndices
          /\ Cardinality(HeadersUpTo(line_number)) = config.max_headers + 1
          /\ Len(headers) = config.max_headers + 1
    /\ pc = "error" => error.kind \in {"TooManyHeadersError", "LineTooLongError"}

\* the error was raised on header number max_headers + 1 while a later
\* header line was never scanned
C13_Witness ==
    /\ pc = "error"
    /\ error = TooManyHeadersError(config.max_headers)
    /\ Cardinality(HeadersUpTo(line_number)) = config.max_headers + 1
    /\ \E i \in HeaderLineIndices : i > line_number

\* C17: when parse_markdown succeeds, the lines of full_file joined in order
\* are the content, each line keeping its own line ending; the empty document
\* gives an empty list, no headers and no marker indices.
C17_FullFileIsContent ==
    pc = "done" =>
        /\ Flatten(full_file) = content
        /\ \A k \in DOMAIN full_file :
              /\ full_file[k] # <<>>
              /\ \A j \in 1..(Len(full_file[k]) - 1) :
                    full_file[k][j] \in LineBoundaries =>
                        /\ full_file[k][j] = "\r"
                        /\ j = Len(full_file[k]) - 1
                        /\ full_file[k][j + 1] = "\n"
              /\ k < Len(full_file) =>
                    full_file[k][Len(full_file[k])] \in LineBoundaries
        /\ content = <<>> =>
              /\ full_file = <<>>
              /\ headers = <<>>
              /\ toc_start_line = None
              /\ toc_end_line = None

\* a parsed document with a CRLF line, an LF line and a last line that has
\* no line ending
C17_Witness ==
    /\ pc = "done"
    /\ Len(full_file) >= 3
    /\ \E k \in DOMAIN full_file : EndsWith(full_file[k], <<"\r", "\n">>)
    /\ full_file[Len(full_file)] = L_text_noeol
    /\ Flatten(full_file) = content

(***************************************************************************)
(* Properties of validate_toc_markers.                                     *)
(***************************************************************************)
\* C14: under a valid configuration validate_toc_markers fails if and only
\* if start >= end or end - start > max_headers + 100; when it accepts it
\* returns nothing and changes nothing.
C14_MarkersAcceptedExactly ==
    /\ (pc = "invalid" /\ validate_config(config)) =>
          /\ error.kind = "ValueError"
          /\ \/ toc_start_line >= toc_end_line
             \/ toc_end_line - toc_start_line > config.max_headers + 100
    /\ pc = "validated" =>
          /\ toc_start_line < toc_end_line
          /\ toc_end_line - toc_start_line <= config.max_headers + 100
          /\ error = NoError
          /\ headers = <<>> /\ full_file = <<>> /\ toc = <<>>

\* a span of exactly max_headers + 100 lines was accepted
C14_Witness ==
    /\ pc = "validated"
    /\ toc_end_line - toc_start_line = config.max_headers + 100

IsWhitespace(c) == c \in PyWhitespace \cup ReWhitespace \cup {NBSP}

\* C16: with preserve_unicode false the slug is non-empty, ASCII only, equal
\* to its case-folded form, free of whitespace, of leading and trailing
\* hyphens and of double hyphens; an empty or blank title, or one made only
\* of removed punctuation, gives "untitled".
C16_SlugShape ==
    (pc \in {"slugged", "reslugged"} /\ ~config.preserve_unicode) =>
        /\ slug_first # <<>>
        /\ \A i \in DOMAIN slug_first :
              /\ slug_first[i] \notin NonAscii
              /\ ~IsWhitespace(slug_first[i])
              /\ i < Len(slug_first) =>
                    ~(slug_first[i] = "-" /\ slug_first[i + 1] = "-")
        /\ casefold(slug_first) = slug_first
        /\ Head(slug_first) # "-"
        /\ slug_first[Len(slug_first)] # "-"
        /\ (\A i \in DOMAIN input_text :
                IsWhitespace(input_text[i]) \/ input_text[i] \in punctuation)
              => slug_first = S_untitled

\* a title with upper case, accents, blanks, punctuation and hyphens at both
\* ends gave a slug other than the fallback
C16_Witness ==
    /\ pc = "slugged"
    /\ ~config.preserve_unicode
    /\ slug_first # S_untitled
    /\ Head(input_text) = "-"
    /\ \E i \in DOMAIN input_text : input_text[i] = "B"
    /\ \E i \in DOMAIN input_text : input_text[i] \in NonAscii
    /\ \E i \in DOMAIN input_text : IsWhitespace(input_text[i])

\* C18: generate_toc_entries returns len(headers) + 3 lines: the start
\* marker line, the header text followed by a blank line, one entry per
\* header in the order of the header list, and the end marker line.
C18_TocFrame ==
    pc = "gen_done" =>
        /\ Len(toc) = Len(headers) + 3
        /\ toc[1] = config.start_marker \o <<"\n">>
        /\ toc[2] = config.header_text \o <<"\n", "\n">>
        /\ toc[Len(toc)] = config.end_marker \o <<"\n">>
        /\ \A i \in DOMAIN headers :
              EndsWith(toc[i + 2],
                       <<" ", "[">> \o heading_title(headers[i])
                       \o <<"]", "(", "#">> \o links[i] \o <<")", "\n">>)

\* a TOC of headers with different titles, in the order of the list
C18_Witness ==
    /\ pc = "gen_done"
    /\ Len(headers) >= 3
    /\ \A i, j \in DOMAIN headers :
          i # j => heading_title(headers[i]) # heading_title(headers[j])

IndentUnits(heading) ==
    IF HashRun(heading) > config.min_level
    THEN HashRun(heading) - config.min_level ELSE 0

\* C19: every entry is indent_chars repeated max(level - min_level, 0)
\* times, the list style, a space and the link, level being the number of
\* leading hashes of the header; the indentation is never negative.
C19_EntryIndentation ==
    \A i \in 1..(Len(toc) - 2) :
        (pc \in {"gen_loop", "gen_done"} /\ i <= Len(links)) =>
            toc[i + 2] =
                Repeat(config.indent_chars, IndentUnits(headers[i]))
                \o config.list_style
                \o <<" ", "[">> \o heading_title(headers[i])
                \o <<"]", "(", "#">> \o links[i] \o <<")", "\n">>

\* one TOC with a header above min_level, one at min_level and one below it
C19_Witness ==
    /\ pc = "gen_done"
    /\ \E i, j, k \in DOMAIN headers :
          /\ HashRun(headers[i]) < config.min_level
          /\ HashRun(headers[j]) = config.min_level
          /\ HashRun(headers[k]) > config.min_level
          /\ toc[i + 2] = config.list_style \o
                <<" ", "[">> \o heading_title(headers[i])
                \o <<"]", "(", "#">> \o links[i] \o <<")", "\n">>
          /\ StartsWith(toc[k + 2], config.indent_chars \o config.list_style)

(***************************************************************************)
(* Properties of strip_markdown_links.                                     *)
(***************************************************************************)
\* the parentheses of the target, escaped characters skipped, are balanced
\* and no backslash is left to escape the closing parenthesis of the link
RECURSIVE WellNested(_, _, _)
WellNested(target, k, depth) ==
    IF k > Len(target) THEN depth = 0
    ELSE IF target[k] = "\\"
    THEN k + 1 <= Len(target) /\ WellNested(target, k + 2, depth)
    ELSE IF target[k] = "(" THEN WellNested(target, k + 1, depth + 1)
    ELSE IF target[k] = ")"
    THEN depth > 0 /\ WellNested(target, k + 1, depth - 1)
    ELSE WellNested(target, k + 1, depth)

BalancedTarget == WellNested(link_parts.target, 1, 0)

TextAlone == link_parts.prefix \o link_parts.text \o link_parts.suffix

\* C20 as stated: an inline link is replaced by its text, the text around it
\* unchanged, whenever the parentheses of its target are balanced to any
\* depth or backslash-escaped.
C20_BalancedTargetStripped ==
    (pc = "stripped" /\ BalancedTarget) => stripped_text = TextAlone

\* C20 amended: the same for every target that does not start with "<"; a
\* target that starts with "<" is read as an angle-bracket destination.
C20_BalancedPlainTargetStripped ==
    (/\ pc = "stripped"
     /\ BalancedTarget
     /\ (link_parts.target # <<>> => Head(link_parts.target) # "<"))
        => stripped_text = TextAlone

\* a link whose target nests parentheses two deep, with text on both sides
C20_Witness ==
    /\ pc = "stripped"
    /\ link_parts.target = <<"(", "(", ")", ")">>
    /\ link_parts.prefix # <<>>
    /\ link_parts.suffix # <<>>
    /\ stripped_text = TextAlone

(***************************************************************************)
(* Properties of strip_markdown_links on inline code and escaped markers.  *)
(***************************************************************************)
CodeSpans == find_inline_code_spans(input_text)

SpanText(k) == Slice(input_text, CodeSpans[k][1], CodeSpans[k][2])

Occurs(part, text) ==
    \E i \in 0..(Len(text) - Len(part)) : Slice(text, i, i + Len(part)) = part

PieceOffset(i) == Len(RawText(SubSeq(pieces, 1, i - 1)))

\* the code span lies in the target or the label of a link
InTarget(k) ==
    \E i \in DOMAIN pieces : \E z \in pieces[i].hidden :
        /\ PieceOffset(i) + z[1] <= CodeSpans[k][1]
        /\ CodeSpans[k][2] <= PieceOffset(i) + z[2]

\* no piece is a backtick on its own, which would pair with its neighbours,
\* and no two backtick runs of neighbouring pieces touch
SelfContained ==
    /\ \A i \in DOMAIN pieces : pieces[i] # P_tick
    /\ \A i \in 1..(Len(pieces) - 1) :
          ~(/\ pieces[i].raw[Len(pieces[i].raw)] = BACKTICK
            /\ Head(pieces[i + 1].raw) = BACKTICK)

VisibleText == Flatten([i \in DOMAIN pieces |-> pieces[i].visible])

\* C21 as stated: every inline code span of the input is in the output
\* verbatim, delimiters included, and the links outside the spans are
\* reduced to their text.
C21_CodeSpansVerbatim ==
    pc = "stripped" =>
        /\ \A k \in DOMAIN CodeSpans : Occurs(SpanText(k), stripped_text)
        /\ (SelfContained /\ \A i \in DOMAIN pieces : pieces[i].hidden = {})
              => stripped_text = VisibleText

\* C21 amended: every inline code span that does not lie in the target or
\* the label of a link is in the output verbatim, delimiters included, and
\* the links outside the spans are reduced to their text; a span in the
\* target or the label of a link goes away with it.
C21_VisibleCodeSpansVerbatim ==
    pc = "stripped" =>
        /\ \A k \in DOMAIN CodeSpans :
              ~InTarget(k) => Occurs(SpanText(k), stripped_text)
        /\ SelfContained => stripped_text = VisibleText

\* a code span holding link syntax was kept while a link after it was
\* reduced to its text and another link took the span of its target along
C21_Witness ==
    /\ pc = "stripped"
    /\ pieces = <<P_code_link, P_link, P_link_code_target>>
    /\ stripped_text = P_code_link.raw \o P_link.visible \o <<"a">>

\* C22: a "[" directly preceded by an escaped "!" starts neither an image
\* nor a link: the text from the backslash to the closing parenthesis is in
\* the output unchanged, and the links after it are reduced to their text.
C22_EscapedImageUnchanged ==
    (pc = "stripped" /\ \E i \in DOMAIN pieces : pieces[i] \in EscapedImages)
        => stripped_text = VisibleText

(***************************************************************************)
(* Properties of the block scanner.                                        *)
(***************************************************************************)
Scanning == pc = "scan" /\ line_number < Len(full_file)

CurrentLine == full_file[line_number + 1]

\* the line is skipped: nothing is recorded and the scan moves on
LineSkipped ==
    /\ headers' = headers
    /\ toc_start_line' = toc_start_line
    /\ toc_end_line' = toc_end_line
    /\ error' = error
    /\ line_number' = line_number + 1

\* a run of at least n characters c, nothing but whitespace after it
FenceCandidate(line, c, n) ==
    LET rest == LStrip(line, {" ", "\t"})
        run == CountLeading(rest, {c})
    IN /\ run >= n
       /\ \A j \in (run + 1)..Len(rest) : rest[j] \in PyWhitespace

\* C23: in IN_FENCED_CODE, for a fence opened by n characters c, a line closes
\* the fence if and only if its first run after the leading blanks is made of
\* c, is at least n long, is followed by whitespace only, and the leading
\* whitespace is at most 3 columns wide; every line met in that state is
\* skipped, and the context is unchanged unless the line closes the fence.
C23_FenceClosesExactly ==
    [][(Scanning /\ ctx.state = IN_FENCED_CODE) =>
           /\ LineSkipped
           /\ IF /\ FenceCandidate(CurrentLine, ctx.fence_char,
                                    ctx.fence_length)
                 /\ leading_whitespace_columns(CurrentLine) <= 3
              THEN ctx'.state = NORMAL
              ELSE ctx' = ctx]_vars

\* a fence of four backticks stayed open over a longer run of tildes and
\* was closed by five backticks followed by blanks
C23_Witness ==
    /\ pc = "scan"
    /\ full_file = <<L_fence4, L_tilde4, L_fence5_blanks>>
    /\ line_number = 3
    /\ ctx.state = NORMAL

\* C24 as stated: a candidate closing line closes the open fence whenever
\* its indentation exceeds the indentation of the opening fence by at most 3
\* columns.
C24_CloseIndentRelative ==
    [][(/\ Scanning
        /\ ctx.state = IN_FENCED_CODE
        /\ FenceCandidate(CurrentLine, ctx.fence_char, ctx.fence_length)
        /\ leading_whitespace_columns(CurrentLine)
               - ctx.fence_indent_columns <= 3)
           => ctx'.state = NORMAL]_vars

\* C24 amended: a candidate closing line closes the open fence if and only
\* if its own indentation is at most 3 columns, whatever the recorded
\* indentation of the opening fence.
C24_CloseIndentAbsolute ==
    [][(/\ Scanning
        /\ ctx.state = IN_FENCED_CODE
        /\ FenceCandidate(CurrentLine, ctx.fence_char, ctx.fence_length))
           => (ctx'.state = NORMAL
                  <=> leading_whitespace_columns(CurrentLine) <= 3)]_vars

\* a fence opened at 3 columns is still open after matching lines indented
\* by 4 and by 6 columns
C24_Witness ==
    /\ pc = "scan"
    /\ full_file = <<L_fence_in3, L_fence_in4, L_fence_in6>>
    /\ line_number = 3
    /\ ctx.state = IN_FENCED_CODE
    /\ ctx.fence_indent_columns = 3

CtxWellFormed(c) ==
    IF c.state = IN_FENCED_CODE
    THEN /\ c.fence_char \in {BACKTICK, "~"}
         /\ c.fence_length >= 3
         /\ c.fence_indent_columns \in 0..3
    ELSE /\ c.fence_char = NoChar
         /\ c.fence_length = 0
         /\ c.fence_indent_columns = 0

\* the context of the first pass after the first n lines
PreCtx(n) == PrePass(SubSeq(full_file, 1, n)).ctx

\* C25: after any number of scanned lines, in either pass, fence_char is set
\* exactly when the state is IN_FENCED_CODE, with fence_length >= 3 and
\* fence_indent_columns <= 3; in every other state the three fence fields
\* have their initial values, so a closed fence leaves the initial context.
C25_ContextWellFormed ==
    /\ ctx.state \in ParserState
    /\ CtxWellFormed(ctx)
    /\ ctx.state = NORMAL => ctx = ParserContext
    /\ \A n \in 0..Len(full_file) : CtxWellFormed(PreCtx(n))

\* a fence of three backticks opened at 3 columns was closed again
C25_Witness ==
    /\ pc = "scan"
    /\ full_file = <<L_fence_in3, L_h2, L_fence4>>
    /\ line_number = 3
    /\ PreCtx(2) = [state |-> IN_FENCED_CODE, fence_char |-> BACKTICK,
                    fence_length |-> 3, fence_indent_columns |-> 3]
    /\ ctx = ParserContext

Blank(line) == \A j \in DOMAIN line : line[j] \in PyWhitespace

\* at most 3 columns of leading whitespace, then a run of 3 or more
\* backticks or of 3 or more tildes
OpensFence(line) ==
    LET rest == LStrip(line, {" ", "\t"})
    IN /\ leading_whitespace_columns(line) <= 3
       /\ rest # <<>>
       /\ Head(rest) \in {BACKTICK, "~"}
       /\ CountLeading(rest, {Head(rest)}) >= 3

\* C26: in IN_INDENTED_CODE a blank line or a line with at least 4 columns
\* of leading whitespace keeps the state and is skipped; any other line is
\* handled on the same step as a line met in NORMAL: a fence opener opens a
\* fence, a header is recorded, a marker is reported, and the state is
\* NORMAL unless the line opened a fence or a TOC region.
C26_IndentedCodeExit ==
    [][(Scanning /\ ctx.state = IN_INDENTED_CODE) =>
           IF Blank(CurrentLine)
              \/ leading_whitespace_columns(CurrentLine) >= 4
           THEN ctx' = ctx /\ LineSkipped
           ELSE /\ line_number' = line_number + 1
                /\ ctx'.state # IN_INDENTED_CODE
                /\ OpensFence(CurrentLine) <=> ctx'.state = IN_FENCED_CODE
                /\ ctx'.state = IN_TOC =>
                      StartsWith(CurrentLine, config.start_marker)
                /\ (/\ header_pattern(CurrentLine)
                    /\ ~StartsWith(CurrentLine, config.header_text)
                    /\ LineLen(CurrentLine) <= effective_max_line_length)
                      => headers' =
                             Append(headers, header_group0(CurrentLine))
                /\ StartsWith(CurrentLine, config.start_marker) =>
                      toc_start_line' = line_number
                /\ StartsWith(CurrentLine, config.end_marker) =>
                      toc_end_line' = line_number]_vars

\* an indented block went on over a blank line and the header that ended it
\* was recorded
C26_Witness ==
    /\ pc = "scan"
    /\ full_file = <<L_indented_h2, L_blank_ws, L_h2>>
    /\ line_number = 3
    /\ headers = <<header_group0(L_h2)>>
    /\ ctx = ParserContext

\* a run of 2 or more backticks or tildes after the leading blanks
FenceLike(line) ==
    LET rest == LStrip(line, {" ", "\t"})
    IN /\ rest # <<>>
       /\ Head(rest) \in {BACKTICK, "~"}
       /\ CountLeading(rest, {Head(rest)}) >= 2

\* C27: a line met in NORMAL opens a fence exactly when its leading
\* whitespace is at most 3 columns wide and is followed by a run of 3 or
\* more backticks or tildes, the run and the columns being recorded; a
\* fence-like line with 4 or more columns of leading whitespace starts an
\* indented code block and is skipped, and a fence line at column 0 met in
\* that block opens a fence.
C27_FenceOpensExactly ==
    [][(Scanning /\ ctx.state = NORMAL) =>
           /\ ctx'.state = IN_FENCED_CODE <=> OpensFence(CurrentLine)
           /\ ctx'.state = IN_FENCED_CODE =>
                 /\ LineSkipped
                 /\ ctx'.fence_char = Head(LStrip(CurrentLine, {" ", "\t"}))
                 /\ ctx'.fence_length =
                        CountLeading(LStrip(CurrentLine, {" ", "\t"}),
                                     {ctx'.fence_char})
                 /\ ctx'.fence_indent_columns =
                        leading_whitespace_columns(CurrentLine)
           /\ (/\ FenceLike(CurrentLine)
               /\ leading_whitespace_columns(CurrentLine) >= 4)
                 => ctx'.state = IN_INDENTED_CODE /\ LineSkipped]_vars
    /\ [][(/\ Scanning
           /\ ctx.state = IN_INDENTED_CODE
           /\ OpensFence(CurrentLine)
           /\ leading_whitespace_columns(CurrentLine) = 0)
              => ctx'.state = IN_FENCED_CODE]_vars

\* a fence line indented by a tab started an indented block, the fence line
\* at column 0 after it opened a fence, and the header inside was skipped
C27_Witness ==
    /\ pc = "scan"
    /\ full_file = <<L_fence_tab, L_fence, L_h2>>
    /\ line_number = 3
    /\ ctx.state = IN_FENCED_CODE
    /\ headers = <<>>

(***************************************************************************)
(* Properties of the TOC regions.                                          *)
(***************************************************************************)
\* the paired regions that are open on the line about to be scanned
OpenRegions ==
    {k \in DOMAIN toc_intervals :
        toc_intervals[k][1] < line_number
        /\ line_number <= toc_intervals[k][2]}

Innermost ==
    CHOOSE k \in OpenRegions :
        \A m \in OpenRegions : toc_intervals[m][1] <= toc_intervals[k][1]

\* the line is outside every paired region and outside code
PlainLine(i) == i \in LineIndices /\ i \notin pre_code /\ ~InTocRegion(i)

\* leaving IN_TOC: only on the end line of the innermost open region, and to
\* NORMAL only when that region is the last one open
TocLeftOnPairedEnd ==
    [][(Scanning /\ ctx.state = IN_TOC) =>
           /\ OpenRegions # {}
           /\ headers' = headers
           /\ IF \E k \in DOMAIN toc_intervals :
                     toc_intervals[k][1] = line_number
              THEN ctx'.state = IN_TOC
              ELSE IF line_number = toc_intervals[Innermost][2]
              THEN ctx'.state =
                       IF Cardinality(OpenRegions) = 1 THEN NORMAL
                       ELSE IN_TOC
              ELSE ctx' = ctx]_vars

\* no header is recorded strictly between a start marker and the end marker
\* paired with it, and the header line after the region is recorded (a line
\* that starts with header_text is passed over wherever it stands)
RegionSkipped(k) ==
    /\ \A i \in LineIndices :
          (toc_intervals[k][1] < i /\ i < toc_intervals[k][2])
              => ~Recorded(i)
    /\ (/\ PlainLine(toc_intervals[k][2] + 1)
        /\ header_pattern(LineAt(toc_intervals[k][2] + 1))
        /\ ~StartsWith(LineAt(toc_intervals[k][2] + 1), config.header_text))
          => Recorded(toc_intervals[k][2] + 1)

\* C28 as stated: for every start marker paired with a later end marker,
\* both outside code, no header is recorded from the lines between them, the
\* two marker lines are reported as toc_start_line and toc_end_line, header
\* scanning resumes after the end marker, and IN_TOC is left only on the end
\* line paired with the innermost open start marker, to NORMAL when the last
\* open region is closed.
C28_TocRegionReported ==
    /\ [](Done => \A k \in DOMAIN toc_intervals :
                      /\ RegionSkipped(k)
                      /\ toc_start_line = toc_intervals[k][1]
                      /\ toc_end_line = toc_intervals[k][2])
    /\ TocLeftOnPairedEnd

\* C28 amended: the same, the two marker lines being reported when no
\* marker line of their kind outside code follows them; otherwise the last
\* start-marker line and the last end-marker line are reported.
C28_TocRegionSkipped ==
    /\ [](Done => \A k \in DOMAIN toc_intervals :
                      /\ RegionSkipped(k)
                      /\ toc_start_line =
                             SetMax(MarkerLines(config.start_marker))
                      /\ toc_end_line =
                             SetMax(MarkerLines(config.end_marker))
                      /\ toc_start_line >= toc_intervals[k][1]
                      /\ toc_end_line >= toc_intervals[k][2])
    /\ TocLeftOnPairedEnd

\* a header between the paired markers was passed over and the header after
\* the end marker was recorded
C28_Witness ==
    /\ Done
    /\ full_file = <<L_start, L_h2, L_end, L_h2>>
    /\ toc_intervals = <<<<0, 2>>>>
    /\ header_lines = <<3>>
    /\ toc_start_line = 0
    /\ toc_end_line = 2

\* C29: throughout the second pass the state is IN_TOC exactly when
\* toc_end_stack is not empty, every index on the stack is at least the index
\* of the line to be scanned, the innermost region is on top, and the stack
\* is empty once the last line has been scanned: no parse ends in IN_TOC.
C29_TocStackInvariant ==
    pc \in {"scan", "done", "error"} =>
        /\ ctx.state = IN_TOC <=> toc_end_stack # <<>>
        /\ \A k \in DOMAIN toc_end_stack :
              /\ toc_end_stack[k] >= line_number
              /\ toc_end_stack[k] < Len(full_file)
        /\ \A k, m \in DOMAIN toc_end_stack :
              k < m => toc_end_stack[k] > toc_end_stack[m]
        /\ line_number = Len(full_file) =>
              toc_end_stack = <<>> /\ ctx.state # IN_TOC

\* two regions, one inside the other, are open
C29_Witness ==
    /\ pc = "scan"
    /\ full_file = <<L_start, L_start, L_end, L_end>>
    /\ line_number = 2
    /\ ctx.state = IN_TOC
    /\ toc_end_stack = <<3, 2>>


(***************************************************************************)
(* Regenerating the TOC of a file.                                         *)
(***************************************************************************)
\* the lines of a document, outside code, that start with the marker
MarkersOutsideCode(lines, marker) ==
    {i \in 0..(Len(lines) - 1) :
        /\ i \notin PrePass(lines).code
        /\ StartsWith(lines[i + 1], marker)}

\* exactly one start-marker line and one later end-marker line outside code
OneRegion(lines) ==
    /\ Cardinality(MarkersOutsideCode(lines, S_start_marker)) = 1
    /\ Cardinality(MarkersOutsideCode(lines, S_end_marker)) = 1
    /\ SetMax(MarkersOutsideCode(lines, S_start_marker))
           < SetMax(MarkersOutsideCode(lines, S_end_marker))

\* the lines before the start marker and after the end marker of the
\* document are the first and the last lines of the text written
OutsideUnchanged(lines, text) ==
    LET start == SetMax(MarkersOutsideCode(lines, S_start_marker))
        end == SetMax(MarkersOutsideCode(lines, S_end_marker))
        after == Len(lines) - end - 1
        new == splitlines(text)
    IN /\ Len(new) >= start + after
       /\ SubSeq(new, 1, start) = SubSeq(lines, 1, start)
       /\ SubSeq(new, Len(new) - after + 1, Len(new))
              = SubSeq(lines, end + 2, Len(lines))

\* C30: for a document with exactly one start-marker line and one later
\* end-marker line outside code, under the default configuration, every
\* update after the first writes the document the first update wrote, and
\* each update leaves the lines before the start marker and after the end
\* marker as they were.
C30_RegenerationIdempotent ==
    \A k \in DOMAIN written :
        OneRegion(written[1].full_file) =>
            /\ OutsideUnchanged(written[1].full_file, written[k].content)
            /\ written[k].content = written[1].content
            /\ written[k].toc = written[1].toc

\* a file updated twice: the old entry is replaced by the entry of the one
\* header, which is indented, and the second update writes the same text
C30_Witness ==
    /\ Len(written) = 2
    /\ written[1].full_file = <<L_start, L_h2, L_end, L_h3_crlf>>
    /\ written[1].toc_start_line = 0
    /\ written[1].toc_end_line = 2
    /\ Len(written[1].toc) = 4
    /\ written[1].content # Flatten(written[1].full_file)
    /\ written[2].full_file = splitlines(written[1].content)
    /\ written[2].content = written[1].content

====
